---- MODULE Spec2Model ----
(***************************************************************************)
(* Windows locks of library/std/src/sys/windows/locks: Mutex, Condvar and  *)
(* RwLock over the three primitives selected by MUTEX_KIND (slim           *)
(* reader/writer lock, critical section, kernel mutex).                    *)
(*                                                                         *)
(* A thread's position inside an operation is pc[t]; op[t] is the          *)
(* operation it called last (still running unless pc[t] = "idle").  The    *)
(* OS primitives are modelled by their documented behaviour: critical      *)
(* sections and kernel mutexes are owned by a thread and recursive, slim   *)
(* locks are not owned and not recursive, PulseEvent on a manual-reset     *)
(* event releases the threads waiting at that moment and leaves the event  *)
(* non-signalled.  OS calls are taken to succeed on valid handles.  A      *)
(* thread that panicked stops where it is and keeps what it owns.          *)
(***************************************************************************)
EXTENDS Integers, FiniteSets, Sequences, TLC

(* ------------------------------ bounds -------------------------------- *)

NumThreads == 2

\* a thread makes a further acquiring call only while it holds the lock fewer
\* than MaxDepth times
MaxDepth == 2

\* the same for the schedule that is applied to the three tiers at once
MaxTierDepth == 3

\* iterations of the increment loop every thread runs
Iterations == 2

Threads == 1 .. NumThreads

NoThread == 0

(* --------------------------- mutex/compat.rs -------------------------- *)

MutexKind == {"SrwLock", "CriticalSection", "Legacy"}

VARIABLES
    MUTEX_KIND,   \* compat.rs: the tier, written by init() before any thread runs
    pc,           \* position of every thread
    op,           \* operation every thread called last
    ret,          \* value the last finished operation returned
    held,         \* Mutex.held
    prim,         \* critical section / kernel mutex: [owner, count]
    srwlock,      \* SRWLOCK: [excl, shared]
    event,        \* manual-reset event of the Condvar: signalled or not
    wake,         \* why the thread's condvar wait ended
    holds,        \* number of exclusive acquisitions returned to t, not yet unlocked
    rholds,       \* number of read acquisitions returned to t, not yet unlocked
    recursive,    \* the running/last acquiring call was made by a thread holding the lock
    notified,     \* a notify was issued between the thread's entry into
                  \* wait_timeout and the end of its wait
    tm,           \* one Mutex per tier, driven by one schedule of calls
    obs,          \* per tier: what the schedule's last call was seen to do
    inner,        \* Mutex.inner: null or the variant the record was built as
    cvinner,      \* Condvar.inner: null or the variant the record was built as
    oscalls,      \* OS calls that created or destroyed an object of the
                  \* Mutex or of the Condvar
    used,         \* the primitives whose record an operation has obtained
    dropped,      \* the primitives that were dropped
    built,        \* number of InnerMutex records LazyInit::init has built
    counter,      \* shared counter of the increment loop
    iter,         \* increments every thread has completed
    tmp,          \* the value of counter a thread read
    inc,          \* where a thread is in its increment
    host,         \* the host: exported entry points, installed modules, NT or not
    mapped,       \* modules mapped into the process
    loadlib,      \* modules LoadLibraryA was called for
    PTR,          \* the memo cell of every binding
    phase,        \* the next step of the startup initializer, or "main"
    IS_NT,        \* version.rs
    SUPPORTS_ASYNC_IO,
    kind_writes,  \* number of writes to MUTEX_KIND
    opt,          \* the last availability query and its answer
    bpc,          \* position of every thread inside a call of a binding
    bsym,         \* the binding it calls
    bfunc,        \* the pointer call() loaded from PTR
    targets,      \* per binding: what its invocations executed so far
    bquery,       \* the thread is in option() / available(), not in call()
    answers       \* per binding: what its availability queries answered so far

lockVars == <<MUTEX_KIND, pc, op, ret, held, prim, srwlock, event, wake,
              holds, rholds, recursive, notified>>

threadVars == <<pc, op, ret, held, prim, srwlock, event, wake,
                holds, rholds, recursive, notified>>

tierVars == <<tm, obs>>

lifeVars == <<inner, cvinner, oscalls, used, dropped, built>>

counterVars == <<counter, iter, tmp, inc>>

bootVars == <<host, mapped, loadlib, PTR, phase, IS_NT, SUPPORTS_ASYNC_IO, kind_writes, opt>>

bindVars == <<bpc, bsym, bfunc, targets, bquery, answers>>

otherVars == <<counterVars, bootVars, bindVars>>

vars == <<lockVars, tierVars, lifeVars, otherVars>>

(* --------------------------- OS primitives ---------------------------- *)

PrimFree == [owner |-> NoThread, count |-> 0]

\* a primitive that lets every caller in, whoever owns it
PrimAvailable_unowned(p, t) == TRUE

\* EnterCriticalSection / WaitForSingleObject(mutex): the caller proceeds when
\* the object is free or already owned by the caller (both are recursive)
PrimAvailable(p, t) == p.owner = NoThread \/ p.owner = t

PrimAcquire(p, t) == [owner |-> t, count |-> p.count + 1]

\* LeaveCriticalSection / ReleaseMutex: one level of ownership is given up
PrimRelease(p) ==
    IF p.count <= 1 THEN PrimFree ELSE [p EXCEPT !.count = @ - 1]

\* critical_section_mutex.rs
CriticalSectionMutex_lock(p, t) == PrimAcquire(p, t)

CriticalSectionMutex_try_lock(p, t) ==
    IF PrimAvailable(p, t) THEN [ok |-> TRUE, prim |-> PrimAcquire(p, t)]
    ELSE [ok |-> FALSE, prim |-> p]

CriticalSectionMutex_unlock(p) == PrimRelease(p)

\* WaitForSingleObject(handle, 0) taken for success whatever it returned
LegacyMutex_try_lock_any(p, t) ==
    [ok |-> TRUE, prim |-> IF PrimAvailable(p, t) THEN PrimAcquire(p, t) ELSE p]

\* legacy_mutex.rs
LegacyMutex_lock(p, t) == PrimAcquire(p, t)

LegacyMutex_try_lock(p, t) ==
    IF PrimAvailable(p, t) THEN [ok |-> TRUE, prim |-> PrimAcquire(p, t)]
    ELSE [ok |-> FALSE, prim |-> p]

LegacyMutex_unlock(p) == PrimRelease(p)

\* srwlock.rs
SrwLock_new == [excl |-> FALSE, shared |-> 0]

\* AcquireSRWLockExclusive proceeds when nobody holds the lock in any mode
SrwCanWrite(s) == ~s.excl /\ s.shared = 0

\* shared acquisition that waits for other readers too
SrwCanRead_alone(s) == ~s.excl /\ s.shared = 0

\* AcquireSRWLockShared proceeds when nobody holds the lock exclusively
SrwCanRead(s) == ~s.excl

SrwLock_write(s) == [s EXCEPT !.excl = TRUE]

\* TryAcquireSRWLockExclusive with its result ignored
SrwLock_try_write_unchecked(s) == [ok |-> TRUE, srw |-> [s EXCEPT !.excl = TRUE]]

SrwLock_try_write(s) ==
    IF SrwCanWrite(s) THEN [ok |-> TRUE, srw |-> SrwLock_write(s)]
    ELSE [ok |-> FALSE, srw |-> s]

SrwLock_read(s) == [s EXCEPT !.shared = @ + 1]

\* TryAcquireSRWLockShared with its result ignored
SrwLock_try_read_unchecked(s) == [ok |-> TRUE, srw |-> [s EXCEPT !.shared = @ + 1]]

SrwLock_try_read(s) ==
    IF SrwCanRead(s) THEN [ok |-> TRUE, srw |-> SrwLock_read(s)]
    ELSE [ok |-> FALSE, srw |-> s]

SrwLock_write_unlock(s) == [s EXCEPT !.excl = FALSE]

SrwLock_read_unlock(s) == [s EXCEPT !.shared = IF @ > 0 THEN @ - 1 ELSE 0]

(* ----------------------------- compat.rs ------------------------------ *)

\* load_srw_functions, in the order of its static_load!
SrwFunctions ==
    <<"TryAcquireSRWLockExclusive", "TryAcquireSRWLockShared",
      "AcquireSRWLockExclusive", "AcquireSRWLockShared",
      "ReleaseSRWLockExclusive", "ReleaseSRWLockShared",
      "SleepConditionVariableSRW", "WakeAllConditionVariable",
      "WakeConditionVariable">>

TryEnterCriticalSectionFunction == <<"TryEnterCriticalSection">>

SynchFunctions == <<"WaitOnAddress", "WakeByAddressSingle">>

StackOverflowFunctions == <<"SetThreadStackGuarantee", "AddVectoredExceptionHandler">>

Elements(seq) == {seq[i] : i \in DOMAIN seq}

\* compat_fn_optional! bindings
OptionalSymbols ==
    Elements(SrwFunctions) \cup Elements(TryEnterCriticalSectionFunction)
        \cup Elements(SynchFunctions) \cup Elements(StackOverflowFunctions)

\* compat_fn_lazy! bindings (two of them: one per value of `load`)
LazySymbols == {"CancelIo", "GetUserProfileDirectoryW"}

\* compat_fn_with_fallback! bindings (two of them: one per value of `load`)
FallbackSymbols == {"SetThreadDescription", "BCryptGenRandom"}

Symbols == OptionalSymbols \cup LazySymbols \cup FallbackSymbols

\* the module a binding is declared for
ModuleOf(sym) ==
    CASE sym \in Elements(SynchFunctions) -> "api-ms-win-core-synch-l1-2-0"
      [] sym = "GetUserProfileDirectoryW" -> "userenv"
      [] sym = "BCryptGenRandom" -> "bcrypt"
      [] OTHER -> "kernel32"

Modules == {ModuleOf(sym) : sym \in Symbols}

\* the `load:` flag of the binding's declaration
LoadFlag(sym) == sym \in {"GetUserProfileDirectoryW", "BCryptGenRandom"}

\* every PTR starting as null, as the compat_fn_optional! ones do
PTR_new_null(sym) == "null"

\* the initial value of a binding's PTR
PTR_new(sym) == IF sym \in OptionalSymbols THEN "null" ELSE "load"

\* Module::new: GetModuleHandleA finds the modules that are mapped
Module_new(name, m) == name \in m

\* Module::load: LoadLibraryA maps an installed module and finds it
Module_load(name, m, h) ==
    IF name \in m \cup h.installed
    THEN [found |-> TRUE, mapped |-> m \cup {name}]
    ELSE [found |-> FALSE, mapped |-> m]

\* Module::proc_address: GetProcAddress
proc_address(sym, h) == sym \in h.exports

\* static_load!, first loop: `$library.proc_address($symbol)?` for every symbol
\* of the group in turn, returning at the first one that is missing
RECURSIVE proc_addresses(_, _)
proc_addresses(group, h) ==
    IF group = <<>> THEN TRUE
    ELSE IF proc_address(Head(group), h) THEN proc_addresses(Tail(group), h)
    ELSE FALSE

\* a static_load! with one loop: each symbol is stored as soon as it is found,
\* until the first one that is missing
RECURSIVE static_load_in_turn(_, _, _)
static_load_in_turn(ptr, group, h) ==
    IF group = <<>> \/ ~proc_address(Head(group), h) THEN ptr
    ELSE static_load_in_turn([ptr EXCEPT ![Head(group)] = "real"], Tail(group), h)

\* static_load! that stores every symbol it finds
static_load_each(ptr, group, h) ==
    [s \in DOMAIN ptr |->
        IF s \in Elements(group) /\ proc_address(s, h) THEN "real" ELSE ptr[s]]

\* static_load!: the stores of the second loop are reached only when every
\* lookup of the first loop succeeded
static_load(ptr, group, h) ==
    IF proc_addresses(group, h)
    THEN [s \in DOMAIN ptr |-> IF s \in Elements(group) THEN "real" ELSE ptr[s]]
    ELSE ptr

\* try_load of load_*_functions: Module::new(MODULE_NAME)? then static_load!
try_load(ptr, group, m, h) ==
    IF Module_new(ModuleOf(Head(group)), m) THEN static_load(ptr, group, h) ELSE ptr

\* compat_fn_optional!: option(), TRUE for Some
optional_option(ptr, sym) == ptr[sym] # "null"

\* the lookup of load_from_module (every binding is declared unicows: false):
\* `if $load { Module::new($name) } else { Module::load($name) }` and then
\* proc_address
lookup(sym, m, h) ==
    LET lib == IF LoadFlag(sym)
               THEN [found |-> Module_new(ModuleOf(sym), m), mapped |-> m]
               ELSE Module_load(ModuleOf(sym), m, h)
    IN  [found |-> lib.found /\ proc_address(sym, h), mapped |-> lib.mapped,
         loads |-> IF LoadFlag(sym) THEN {} ELSE {ModuleOf(sym)}]

\* load_from_module handing the fallback to load() whatever it stored
returned_fallback(sym, found) == "fallback"

\* load_from_module: the value it returns to load(); the compat_fn_lazy! one
\* returns an Option, None when the lookup failed
returned(sym, found) ==
    IF found THEN "real"
    ELSE IF sym \in FallbackSymbols THEN "fallback" ELSE "None"

\* load_from_module storing the pointer it found even when it found none
store_unchecked(sym, found) == "real"

\* load_from_module: the value it stores into PTR
store(sym, found) ==
    IF found THEN "real"
    ELSE IF sym \in FallbackSymbols THEN "fallback" ELSE "null"

\* load_from_module of compat_fn_with_fallback! and of compat_fn_lazy!
load_from_module(sym, ptr, m, h) ==
    LET f == lookup(sym, m, h) IN
    [found |-> f.found,
     PTR |-> [ptr EXCEPT ![sym] = store(sym, f.found)],
     mapped |-> f.mapped, loads |-> f.loads]

\* `Some(mem::transmute(ptr))` of option(), as is_some() sees it: a null
\* pointer transmuted to a function pointer is undefined; the build either
\* takes the function pointer for non-null (Some) or leaves the bits of the
\* null pointer, which are the None of Option<F>
Some_transmute(p) == IF p = "null" THEN BOOLEAN ELSE {TRUE}

\* the binding resolved as load() does it: func.unwrap() panics on None
lazy_option_unwrapped(sym, ptr, m, h, some) ==
    IF ptr[sym] = "load"
    THEN LET r == load_from_module(sym, ptr, m, h) IN
         [found |-> r.found, PTR |-> r.PTR, mapped |-> r.mapped, loads |-> r.loads,
          panic |-> ~r.found]
    ELSE [found |-> some, PTR |-> ptr, mapped |-> m, loads |-> {}, panic |-> FALSE]

\* compat_fn_lazy!: option(); it hands the Option to its caller and never
\* unwraps it; some \in Some_transmute(ptr[sym]) is what the build made of
\* the stored pointer
lazy_option(sym, ptr, m, h, some) ==
    IF ptr[sym] = "load"
    THEN LET r == load_from_module(sym, ptr, m, h) IN
         [found |-> r.found, PTR |-> r.PTR, mapped |-> r.mapped, loads |-> r.loads,
          panic |-> FALSE]
    ELSE [found |-> some, PTR |-> ptr, mapped |-> m, loads |-> {}, panic |-> FALSE]

\* compat_fn_with_fallback!: available(), from the pointer it read from PTR
\* or got from load_from_module
available(p) == p # "fallback"

\* locks::compat::init leaving MUTEX_KIND at the value of its initializer
locks_compat_init_default(ptr) == "SrwLock"

\* locks::compat::init choosing CriticalSection whenever the slim lock is missing
locks_compat_init_two_tiers(ptr) ==
    IF optional_option(ptr, "TryAcquireSRWLockExclusive") THEN "SrwLock"
    ELSE "CriticalSection"

\* locks::compat::init (mutex/compat.rs): the tier from the two probes
locks_compat_init(ptr) ==
    IF optional_option(ptr, "TryAcquireSRWLockExclusive") THEN "SrwLock"
    ELSE IF optional_option(ptr, "TryEnterCriticalSection") THEN "CriticalSection"
    ELSE "Legacy"

\* The startup initializer init() as a function of the process state
\* b = [PTR, mapped, loadlib, MUTEX_KIND, IS_NT, SUPPORTS_ASYNC_IO, kind_writes,
\* panic];
\* panic: the statement panicked

\* version::init_windows_version_check; nothing touched the cell of CancelIo
\* before init(): it holds `load` and the Option is that of load_from_module
init_windows_version_check(b, h) ==
    IF h.nt
    THEN LET o == lazy_option("CancelIo", b.PTR, b.mapped, h,
                              CHOOSE a \in Some_transmute(b.PTR["CancelIo"]) : TRUE) IN
         [b EXCEPT !.IS_NT = TRUE, !.SUPPORTS_ASYNC_IO = o.found,
                   !.PTR = o.PTR, !.mapped = o.mapped, !.panic = o.panic,
                   !.loadlib = @ \cup o.loads]
    ELSE [b EXCEPT !.IS_NT = FALSE, !.SUPPORTS_ASYNC_IO = FALSE]

load_try_enter_critical_section_function(b, h) ==
    [b EXCEPT !.PTR = try_load(@, TryEnterCriticalSectionFunction, b.mapped, h)]

load_srw_functions(b, h) ==
    [b EXCEPT !.PTR = try_load(@, SrwFunctions, b.mapped, h)]

compat_init(b, h) ==
    [b EXCEPT !.MUTEX_KIND = locks_compat_init(b.PTR), !.kind_writes = @ + 1]

load_synch_functions(b, h) ==
    [b EXCEPT !.PTR = try_load(@, SynchFunctions, b.mapped, h)]

load_stack_overflow_functions(b, h) ==
    [b EXCEPT !.PTR = try_load(@, StackOverflowFunctions, b.mapped, h)]

\* the statics before init() runs; kernel32 is mapped into every process
Statics(m) ==
    [PTR |-> [sym \in Symbols |-> PTR_new(sym)], mapped |-> m, loadlib |-> {},
     MUTEX_KIND |-> "SrwLock", IS_NT |-> TRUE, SUPPORTS_ASYNC_IO |-> TRUE,
     kind_writes |-> 0, panic |-> FALSE]

\* init() of compat.rs from its first statement to its last
init(b, h) ==
    load_stack_overflow_functions(
        load_synch_functions(
            compat_init(
                load_srw_functions(
                    load_try_enter_critical_section_function(
                        init_windows_version_check(b, h), h), h), h), h), h)

\* three hosts, one per tier, after the doc comments of MutexKind
\* (9x, NT 4+, Win 7+)
Hosts == {"Win95", "NT4", "Win7"}

HostImage(name) ==
    CASE name = "Win95" ->
            [exports |-> {}, installed |-> {"kernel32"}, nt |-> FALSE]
      [] name = "NT4" ->
            [exports |-> {"TryEnterCriticalSection", "CancelIo",
                          "GetUserProfileDirectoryW"},
             installed |-> {"kernel32", "userenv"}, nt |-> TRUE]
      [] name = "Win7" ->
            [exports |-> {"TryEnterCriticalSection", "CancelIo",
                          "GetUserProfileDirectoryW", "BCryptGenRandom"}
                         \cup Elements(SrwFunctions)
                         \cup Elements(StackOverflowFunctions),
             installed |-> {"kernel32", "userenv", "bcrypt"}, nt |-> TRUE]

(* ------------------------- lazy_box, first use ------------------------ *)

\* LazyBox::new: no record
LazyBox_new == "null"

\* a LazyBox that runs LazyInit::init on every deref
LazyBox_deref_every_time(box, k, os) == [box |-> k, os |-> os, init |-> TRUE]

\* LazyBox deref: the record, built by LazyInit::init on the first use only;
\* k is the variant init() builds and os the OS calls it makes
LazyBox_deref(box, k, os) ==
    IF box = "null" THEN [box |-> k, os |-> os, init |-> TRUE]
    ELSE [box |-> box, os |-> {}, init |-> FALSE]

\* LazyBox drop: T::destroy on the record, if there is one; os its OS calls
LazyBox_drop(box, os) == IF box = "null" THEN {} ELSE os

\* impl LazyInit for InnerMutex: the OS calls of init() under tier k
InnerMutex_init(k) ==
    CASE k = "SrwLock" -> {}
      [] k = "CriticalSection" -> {"InitializeCriticalSection"}
      [] k = "Legacy" -> {"CreateMutexA"}

\* impl LazyInit for CondvarImpl: the OS calls of init() under tier k
CondvarImpl_init(k) == IF k = "SrwLock" THEN {} ELSE {"CreateEventA"}

\* LegacyMutex::new, legacy_mutex.rs 16: h is what CreateMutexA returned; the
\* record holding the handle, or a panic
LegacyMutex_new(h) ==
    IF h = "null" THEN [panic |-> TRUE, box |-> "null"]
    ELSE [panic |-> FALSE, box |-> "Legacy"]

\* an init() that keeps whatever CreateEventA returned
CondvarImpl_new_unchecked(k, h) ==
    [panic |-> FALSE, box |-> IF h = "null" THEN "NullHandle" ELSE k]

\* impl LazyInit for CondvarImpl, degraded arm, condvar.rs 143: h is what
\* CreateEventA returned; the record holding the event, or a panic
CondvarImpl_new(k, h) ==
    IF h = "null" THEN [panic |-> TRUE, box |-> "null"]
    ELSE [panic |-> FALSE, box |-> k]

\* impl Drop for InnerMutex, by thread t, p the state of the primitive:
\* CriticalSectionMutex::destroy deletes the critical section when its
\* try_lock succeeds, LegacyMutex closes its handle
InnerMutex_drop(k, p, t) ==
    CASE k = "SrwLock" -> {}
      [] k = "CriticalSection" ->
            IF CriticalSectionMutex_try_lock(p, t).ok
            THEN {"DeleteCriticalSection"} ELSE {}
      [] k = "Legacy" -> {"CloseHandle(mutex)"}

\* a Drop for CondvarImpl that closes nothing
CondvarImpl_drop_leaks(k) == {}

\* impl Drop for CondvarImpl
CondvarImpl_drop(k) == IF k = "SrwLock" THEN {} ELSE {"CloseHandle(event)"}

(* ------------------------------ mutex.rs ------------------------------ *)

\* The Mutex as a value m = [held, prim, srw]; k is MUTEX_KIND.

\* Mutex::new that builds the record at once
Mutex_new_eager ==
    [held |-> FALSE, prim |-> PrimFree, srw |-> SrwLock_new, inner |-> "SrwLock"]

Mutex_new ==
    [held |-> FALSE, prim |-> PrimFree, srw |-> SrwLock_new, inner |-> LazyBox_new]

\* a flag_locked that refuses when the flag is clear
flag_locked_inverted(h) == [ok |-> h, held |-> TRUE]

\* Mutex::flag_locked: FALSE when the flag was already set, else sets it
flag_locked(h) == [ok |-> ~h, held |-> TRUE]

\* an unlock() that leaves the flag as it is
Mutex_unlock_clear_skipped(k, m) == m

\* Mutex::unlock, first statement on the degraded tiers: *self.held.get() = false
Mutex_unlock_clear(k, m) ==
    IF k = "SrwLock" THEN m ELSE [m EXCEPT !.held = FALSE]

\* Mutex::unlock, the release of the OS primitive
Mutex_unlock_release(k, m) ==
    CASE k = "SrwLock" -> [m EXCEPT !.srw = SrwLock_write_unlock(@)]
      [] k = "CriticalSection" -> [m EXCEPT !.prim = CriticalSectionMutex_unlock(@)]
      [] k = "Legacy" -> [m EXCEPT !.prim = LegacyMutex_unlock(@)]

Mutex_unlock(k, m) == Mutex_unlock_release(k, Mutex_unlock_clear(k, m))

\* a blocking call that never waits
Mutex_lock_available_always(k, m, t) == TRUE

\* Mutex::lock: can the blocking call on the OS primitive proceed for thread t
Mutex_lock_available(k, m, t) ==
    IF k = "SrwLock" THEN SrwCanWrite(m.srw) ELSE PrimAvailable(m.prim, t)

\* Mutex::lock: srwlock.write() / critical_section.lock() / legacy.lock()
Mutex_lock_acquire(k, m, t) ==
    CASE k = "SrwLock" -> [m EXCEPT !.srw = SrwLock_write(@)]
      [] k = "CriticalSection" -> [m EXCEPT !.prim = CriticalSectionMutex_lock(@, t)]
      [] k = "Legacy" -> [m EXCEPT !.prim = LegacyMutex_lock(@, t)]

\* a lock() that panics on recursion without its self.unlock()
Mutex_lock_flag_keeps(k, m) ==
    IF k = "SrwLock" THEN [ok |-> TRUE, m |-> m]
    ELSE LET f == flag_locked(m.held) IN
         [ok |-> f.ok, m |-> [m EXCEPT !.held = f.held]]

\* Mutex::lock after the primitive was obtained, degraded tiers:
\* if !self.flag_locked() { self.unlock(); panic!(..) }
Mutex_lock_flag(k, m) ==
    IF k = "SrwLock" THEN [ok |-> TRUE, m |-> m]
    ELSE LET f == flag_locked(m.held) IN
         IF f.ok THEN [ok |-> TRUE, m |-> [m EXCEPT !.held = f.held]]
         ELSE [ok |-> FALSE, m |-> Mutex_unlock(k, [m EXCEPT !.held = f.held])]

\* Mutex::try_lock, the whole call: ok is its return value
Mutex_try_lock(k, m, t) ==
    IF k = "SrwLock"
    THEN LET r == SrwLock_try_write(m.srw) IN [ok |-> r.ok, m |-> [m EXCEPT !.srw = r.srw]]
    ELSE LET r == IF k = "CriticalSection" THEN CriticalSectionMutex_try_lock(m.prim, t)
                  ELSE LegacyMutex_try_lock(m.prim, t)
             m1 == [m EXCEPT !.prim = r.prim]
             f == flag_locked(m.held)
         IN  IF ~r.ok THEN [ok |-> FALSE, m |-> m]
             ELSE IF f.ok THEN [ok |-> TRUE, m |-> [m1 EXCEPT !.held = f.held]]
             ELSE [ok |-> FALSE, m |-> Mutex_unlock(k, [m1 EXCEPT !.held = f.held])]

(* --------------------- threads using one Mutex ------------------------ *)

\* the Mutex of the running process
Mx == [held |-> held, prim |-> prim, srw |-> srwlock]

SetMx(m) == held' = m.held /\ prim' = m.prim /\ srwlock' = m.srw

Degraded == MUTEX_KIND \in {"CriticalSection", "Legacy"}

AcquireOps == {"lock", "try_lock", "read", "try_read", "write", "try_write"}

TryOps == {"try_lock", "try_read", "try_write"}

ReadOps == {"read", "try_read", "read_unlock"}

CondvarOps == {"wait", "wait_timeout"}

\* wait_timeout ignores that its wait ended by the timeout
ReturnValue_ignores_timeout(t, w) ==
    CASE op[t] \in TryOps -> "true"
      [] op[t] = "wait_timeout" -> "true"
      [] OTHER -> "unit"

\* wait_timeout with the two results of its wait exchanged
ReturnValue_exchanged(t, w) ==
    CASE op[t] \in TryOps -> "true"
      [] op[t] = "wait_timeout" -> IF w = "timeout" THEN "true" ELSE "false"
      [] OTHER -> "unit"

\* the value an operation that ends with the lock acquired returns; for
\* wait_timeout the result of the wait: SleepConditionVariableSRW returned 0 /
\* WaitForSingleObject returned WAIT_TIMEOUT -> false, else true
ReturnValue(t, w) ==
    CASE op[t] \in TryOps -> "true"
      [] op[t] = "wait_timeout" -> IF w = "timeout" THEN "false" ELSE "true"
      [] OTHER -> "unit"

\* bookkeeping of a return that leaves the caller holding the lock
Acquired(t) ==
    /\ holds' = IF op[t] \in ReadOps THEN holds ELSE [holds EXCEPT ![t] = @ + 1]
    /\ rholds' = IF op[t] \in ReadOps THEN [rholds EXCEPT ![t] = @ + 1] ELSE rholds

\* bookkeeping of a release of the lock by its holder
Released(t) ==
    /\ holds' = IF op[t] \in ReadOps THEN holds ELSE [holds EXCEPT ![t] = @ - 1]
    /\ rholds' = IF op[t] \in ReadOps THEN [rholds EXCEPT ![t] = @ - 1] ELSE rholds

TierMutex_new ==
    [held |-> FALSE, prim |-> PrimFree, srw |-> SrwLock_new,
     st |-> [t \in Threads |-> "idle"], holds |-> [t \in Threads |-> 0]]

\* the process state b of compat.rs as the values of the variables
BootIs(b) ==
    /\ PTR = b.PTR
    /\ mapped = b.mapped
    /\ loadlib = b.loadlib
    /\ MUTEX_KIND = b.MUTEX_KIND
    /\ IS_NT = b.IS_NT
    /\ SUPPORTS_ASYNC_IO = b.SUPPORTS_ASYNC_IO
    /\ kind_writes = b.kind_writes

Boot ==
    [PTR |-> PTR, mapped |-> mapped, loadlib |-> loadlib,
     MUTEX_KIND |-> MUTEX_KIND, IS_NT |-> IS_NT,
     SUPPORTS_ASYNC_IO |-> SUPPORTS_ASYNC_IO, kind_writes |-> kind_writes,
     panic |-> phase = "panicked"]

SetBoot(b) ==
    /\ PTR' = b.PTR
    /\ mapped' = b.mapped
    /\ loadlib' = b.loadlib
    /\ MUTEX_KIND' = b.MUTEX_KIND
    /\ IS_NT' = b.IS_NT
    /\ SUPPORTS_ASYNC_IO' = b.SUPPORTS_ASYNC_IO
    /\ kind_writes' = b.kind_writes

\* Mutex::new, Condvar::new, RwLock::new and the threads before any call
Fresh ==
    /\ pc = [t \in Threads |-> "idle"]
    /\ op = [t \in Threads |-> "none"]
    /\ ret = [t \in Threads |-> "none"]
    /\ held = Mutex_new.held
    /\ prim = Mutex_new.prim
    /\ srwlock = Mutex_new.srw
    /\ event = FALSE
    /\ wake = [t \in Threads |-> "none"]
    /\ holds = [t \in Threads |-> 0]
    /\ rholds = [t \in Threads |-> 0]
    /\ recursive = [t \in Threads |-> FALSE]
    /\ notified = [t \in Threads |-> FALSE]
    /\ tm = [k \in MutexKind |-> TierMutex_new]
    /\ obs = [k \in MutexKind |-> "none"]
    /\ inner = Mutex_new.inner
    /\ cvinner = LazyBox_new
    /\ oscalls = {}
    /\ used = {}
    /\ dropped = {}
    /\ built = 0
    /\ counter = 0
    /\ iter = [t \in Threads |-> 0]
    /\ tmp = [t \in Threads |-> 0]
    /\ inc = [t \in Threads |-> "none"]
    /\ opt = <<"none", "none">>
    /\ bpc = [t \in Threads |-> "idle"]
    /\ bsym = [t \in Threads |-> "none"]
    /\ bfunc = [t \in Threads |-> "none"]
    /\ targets = [sym \in LazySymbols \cup FallbackSymbols |-> {}]
    /\ bquery = [t \in Threads |-> FALSE]
    /\ answers = [sym \in LazySymbols \cup FallbackSymbols |-> {}]

\* a process on one of the three hosts after its startup initializer has run
Init ==
    /\ \E name \in Hosts : host = HostImage(name)
    /\ BootIs(init(Statics({"kernel32"}), host))
    /\ phase = "main"
    /\ Fresh

\* the primitives operation o is called on
Primitives(o) == IF o \in CondvarOps THEN {"Mutex", "Condvar"} ELSE {"Mutex"}

\* the first statement of every operation, `self.inner.deref()`, for the
\* primitives in P: the record of each is built if this is its first use
Touch(P) ==
    LET m == IF "Mutex" \in P
             THEN LazyBox_deref(inner, MUTEX_KIND, InnerMutex_init(MUTEX_KIND))
             ELSE [box |-> inner, os |-> {}, init |-> FALSE]
        c == IF "Condvar" \in P
             THEN LazyBox_deref(cvinner, MUTEX_KIND, CondvarImpl_init(MUTEX_KIND))
             ELSE [box |-> cvinner, os |-> {}, init |-> FALSE]
    IN  /\ P \cap dropped = {}
        /\ inner' = m.box
        /\ cvinner' = c.box
        /\ oscalls' = oscalls \cup m.os \cup c.os
        /\ used' = used \cup P
        /\ built' = IF m.init THEN built + 1 ELSE built
        /\ UNCHANGED dropped

\* thread t, between operations, calls operation o and stands at position p
Begin(t, o, p) ==
    /\ pc[t] = "idle"
    /\ Touch(Primitives(o))
    /\ pc' = [pc EXCEPT ![t] = p]
    /\ op' = [op EXCEPT ![t] = o]
    /\ ret' = [ret EXCEPT ![t] = "none"]
    /\ wake' = [wake EXCEPT ![t] = "none"]
    /\ notified' = [notified EXCEPT ![t] = FALSE]
    /\ recursive' = [recursive EXCEPT ![t] =
                        o \in AcquireOps /\ holds[t] + rholds[t] > 0]

\* the operations whose first deref builds a record with a kernel object
CreatingOps == {"lock", "try_lock", "wait", "wait_timeout", "notify_one", "notify_all"}

\* thread t calls operation o, which has to build the record, and the OS
\* fails to create the kernel object: CreateMutexA (Legacy Mutex) or
\* CreateEventA (degraded Condvar) returns null
CreateFails(t, o) ==
    /\ pc[t] = "idle"
    /\ LET onMutex == o \in {"lock", "try_lock"}
           r == IF onMutex THEN LegacyMutex_new("null")
                ELSE CondvarImpl_new(MUTEX_KIND, "null")
       IN  /\ IF onMutex
              THEN MUTEX_KIND = "Legacy" /\ inner = "null" /\ "Mutex" \notin dropped
              ELSE /\ Degraded /\ cvinner = "null" /\ "Condvar" \notin dropped
                   /\ o \in CondvarOps => holds[t] > 0
           /\ inner' = IF onMutex THEN r.box ELSE inner
           /\ cvinner' = IF onMutex THEN cvinner ELSE r.box
           /\ pc' = [pc EXCEPT ![t] = IF r.panic THEN "panicked" ELSE "idle"]
           /\ ret' = [ret EXCEPT ![t] = IF r.panic THEN "panic" ELSE "none"]
    /\ op' = [op EXCEPT ![t] = o]
    /\ recursive' = [recursive EXCEPT ![t] = FALSE]
    /\ UNCHANGED <<MUTEX_KIND, held, prim, srwlock, event, wake, holds, rholds,
                   notified, tierVars, oscalls, used, dropped, built, otherVars>>

\* thread t returns v from its operation
Return(t, v) ==
    /\ pc' = [pc EXCEPT ![t] = "idle"]
    /\ ret' = [ret EXCEPT ![t] = v]

\* a thread enters lock(): Mutex::lock, mutex.rs 74
CallLock(t) ==
    /\ holds[t] < MaxDepth
    /\ Begin(t, "lock", "lock_enter")
    /\ UNCHANGED <<MUTEX_KIND, held, prim, srwlock, event, holds, rholds, tierVars, otherVars>>

\* Mutex::lock, the blocking acquisition of the OS primitive (also the
\* re-acquisition at the end of a degraded-tier wait, and RwLock::write)
MutexLockAcquire(t) ==
    /\ pc[t] = "lock_enter"
    /\ Mutex_lock_available(MUTEX_KIND, Mx, t)
    /\ SetMx(Mutex_lock_acquire(MUTEX_KIND, Mx, t))
    /\ IF Degraded
       THEN /\ pc' = [pc EXCEPT ![t] = "lock_flag"]
            /\ UNCHANGED <<ret, holds, rholds>>
       ELSE /\ Return(t, ReturnValue(t, wake[t]))
            /\ Acquired(t)
    /\ UNCHANGED <<MUTEX_KIND, op, event, wake, recursive, notified, tierVars, lifeVars, otherVars>>

\* Mutex::lock after the OS primitive was obtained (mutex.rs 82-85, 89-92)
MutexLockFlag(t) ==
    /\ pc[t] = "lock_flag"
    /\ LET r == Mutex_lock_flag(MUTEX_KIND, Mx) IN
          /\ SetMx(r.m)
          /\ IF r.ok
             THEN /\ Return(t, ReturnValue(t, wake[t]))
                  /\ Acquired(t)
             ELSE /\ pc' = [pc EXCEPT ![t] = "panicked"]
                  /\ ret' = [ret EXCEPT ![t] = "panic"]
                  /\ UNCHANGED <<holds, rholds>>
    /\ UNCHANGED <<MUTEX_KIND, op, event, wake, recursive, notified, tierVars, lifeVars, otherVars>>

\* a thread enters try_lock(): Mutex::try_lock, mutex.rs 99
CallTryLock(t) ==
    /\ holds[t] < MaxDepth
    /\ Begin(t, "try_lock", "try_enter")
    /\ UNCHANGED <<MUTEX_KIND, held, prim, srwlock, event, holds, rholds, tierVars, otherVars>>

\* Mutex::try_lock (also RwLock::try_write, and RwLock::try_read on the
\* degraded tiers): never waits for the primitive
MutexTryLock(t) ==
    /\ pc[t] = "try_enter"
    /\ LET r == Mutex_try_lock(MUTEX_KIND, Mx, t) IN
          /\ SetMx(r.m)
          /\ Return(t, IF r.ok THEN "true" ELSE "false")
          /\ IF r.ok THEN Acquired(t) ELSE UNCHANGED <<holds, rholds>>
    /\ UNCHANGED <<MUTEX_KIND, op, event, wake, recursive, notified, tierVars, lifeVars, otherVars>>

\* a thread enters Mutex::unlock (mutex.rs 130) as operation o; on the
\* degraded tiers the flag is cleared first
UnlockBegin(t, o) ==
    /\ Begin(t, o, "unlock_release")
    /\ SetMx(Mutex_unlock_clear(MUTEX_KIND, Mx))
    /\ UNCHANGED <<MUTEX_KIND, event, holds, rholds, tierVars, otherVars>>

\* a thread that holds the Mutex calls unlock()
CallUnlock(t) ==
    /\ holds[t] > 0
    /\ UnlockBegin(t, "unlock")

\* Mutex::unlock, the release of the OS primitive; unlock() then returns, a
\* degraded-tier wait goes on to wait for the event
MutexUnlockRelease(t) ==
    /\ pc[t] = "unlock_release"
    /\ SetMx(Mutex_unlock_release(MUTEX_KIND, Mx))
    /\ Released(t)
    /\ IF op[t] \in CondvarOps
       THEN /\ pc' = [pc EXCEPT ![t] = "event_wait"]
            /\ UNCHANGED ret
       ELSE Return(t, "unit")
    /\ UNCHANGED <<MUTEX_KIND, op, event, wake, recursive, notified, tierVars, lifeVars, otherVars>>

MutexStep(t) ==
    \/ MutexLockAcquire(t)
    \/ MutexLockFlag(t)
    \/ MutexTryLock(t)
    \/ MutexUnlockRelease(t)

(* ----------------------------- condvar.rs ----------------------------- *)

\* positions of a wait_timeout caller before its wait has ended
WaitWindow == {"unlock_release", "event_wait", "event_blocked", "cv_sleeping"}

InWindow(u) == op[u] = "wait_timeout" /\ pc[u] \in WaitWindow

\* threads blocked in WaitForSingleObject(inner.event, ..)
EventWaiters == {u \in Threads : pc[u] = "event_blocked"}

\* threads sleeping on the CONDITION_VARIABLE
cvWaiters == {u \in Threads : pc[u] = "cv_sleeping"}

\* threads blocked in the OS wait of their condvar operation
Blocked(u) == pc[u] \in {"event_blocked", "cv_sleeping"}

\* SetEvent in place of PulseEvent: the event stays signalled
PulseEvent_stays_signalled(waiters) == [event |-> TRUE, released |-> waiters]

\* PulseEvent on the manual-reset event: releases every thread waiting now and
\* leaves the event non-signalled
PulseEvent(waiters) == [event |-> FALSE, released |-> waiters]

\* WakeConditionVariable: one sleeping thread, if any; WakeAllConditionVariable: all
WakeConditionVariable(ws) == IF ws = {} THEN {{}} ELSE {{w} : w \in ws}

WakeAllConditionVariable(ws) == {ws}

\* a wait that releases the mutex with unlock() on every tier, before its OS wait
WaitBegin_unlock_first(t, o) == UnlockBegin(t, o)

\* Condvar::wait / wait_timeout, Modern tier: SleepConditionVariableSRW releases
\* the slim lock and starts to sleep on the condition variable in one step;
\* degraded tiers: mutex.unlock() comes first
WaitBegin(t, o) ==
    IF Degraded
    THEN UnlockBegin(t, o)
    ELSE /\ Begin(t, o, "cv_sleeping")
         /\ srwlock' = SrwLock_write_unlock(srwlock)
         /\ holds' = [holds EXCEPT ![t] = @ - 1]
         /\ UNCHANGED <<MUTEX_KIND, held, prim, event, rholds, tierVars, otherVars>>

\* Condvar::wait, condvar.rs 46
CallWait(t) ==
    /\ holds[t] > 0
    /\ WaitBegin(t, "wait")

\* Condvar::wait_timeout, condvar.rs 70
CallWaitTimeout(t) ==
    /\ holds[t] > 0
    /\ WaitBegin(t, "wait_timeout")

\* a sleeper on the condition variable wakes without a notify
CondvarSpurious(t) ==
    /\ pc[t] = "cv_sleeping"
    /\ wake' = [wake EXCEPT ![t] = "spurious"]
    /\ pc' = [pc EXCEPT ![t] = "cv_reacquire"]
    /\ UNCHANGED <<MUTEX_KIND, op, ret, held, prim, srwlock, event, holds,
                   rholds, recursive, notified, tierVars, lifeVars, otherVars>>

\* the timeout of a wait_timeout expires while the caller is blocked
CondvarTimeout(t) ==
    /\ op[t] = "wait_timeout"
    /\ Blocked(t)
    /\ wake' = [wake EXCEPT ![t] = "timeout"]
    /\ pc' = [pc EXCEPT ![t] = IF pc[t] = "cv_sleeping" THEN "cv_reacquire"
                                 ELSE "event_woken"]
    /\ UNCHANGED <<MUTEX_KIND, op, ret, held, prim, srwlock, event, holds,
                   rholds, recursive, notified, tierVars, lifeVars, otherVars>>

\* SleepConditionVariableSRW, second half: take the slim lock back and return
CondvarReacquire(t) ==
    /\ pc[t] = "cv_reacquire"
    /\ SrwCanWrite(srwlock)
    /\ srwlock' = SrwLock_write(srwlock)
    /\ Acquired(t)
    /\ Return(t, ReturnValue(t, wake[t]))
    /\ UNCHANGED <<MUTEX_KIND, op, held, prim, event, wake, recursive, notified,
                   tierVars, lifeVars, otherVars>>

\* degraded tiers: WaitForSingleObject(inner.event, ..) begins; it returns at
\* once when the event is signalled and blocks the caller otherwise
EventWait(t) ==
    /\ pc[t] = "event_wait"
    /\ IF event
       THEN /\ wake' = [wake EXCEPT ![t] = "notify"]
            /\ pc' = [pc EXCEPT ![t] = "event_woken"]
       ELSE /\ pc' = [pc EXCEPT ![t] = "event_blocked"]
            /\ UNCHANGED wake
    /\ UNCHANGED <<MUTEX_KIND, op, ret, held, prim, srwlock, event,
                   holds, rholds, recursive, notified, tierVars, lifeVars, otherVars>>

\* the wait returns to its caller without mutex.lock()
EventWaitReturn_without_lock(t) ==
    /\ pc[t] = "event_woken"
    /\ Return(t, ReturnValue(t, wake[t]))
    /\ UNCHANGED <<MUTEX_KIND, op, held, prim, srwlock, event, wake,
                   holds, rholds, recursive, notified, tierVars, lifeVars, otherVars>>

\* degraded tiers: WaitForSingleObject returned WAIT_OBJECT_0 or WAIT_TIMEOUT;
\* the caller goes on to mutex.lock() (condvar.rs 65, 99)
EventWaitReturn(t) ==
    /\ pc[t] = "event_woken"
    /\ pc' = [pc EXCEPT ![t] = "lock_enter"]
    /\ UNCHANGED <<MUTEX_KIND, op, ret, held, prim, srwlock, event, wake,
                   holds, rholds, recursive, notified, tierVars, lifeVars, otherVars>>

\* effect of a notify by t that releases the threads in R; the notifier's
\* call is over at once
Notify(t, R, ev) ==
    /\ pc[t] = "idle"
    /\ Touch({"Condvar"})
    /\ event' = ev
    /\ wake' = [u \in Threads |-> IF u \in R THEN "notify"
                                  ELSE IF u = t THEN "none" ELSE wake[u]]
    /\ pc' = [u \in Threads |-> IF u \in R
                                THEN (IF Degraded THEN "event_woken" ELSE "cv_reacquire")
                                ELSE pc[u]]
    /\ notified' = [u \in Threads |-> u # t /\ (notified[u] \/ InWindow(u))]
    /\ op' = [op EXCEPT ![t] = "none"]
    /\ ret' = [ret EXCEPT ![t] = "none"]
    /\ recursive' = [recursive EXCEPT ![t] = FALSE]
    /\ UNCHANGED <<MUTEX_KIND, held, prim, srwlock, holds, rholds, tierVars, otherVars>>

\* a notify_one that releases one of the threads waiting for the event
Condvar_notify_one_wakes_one(k, ev, ews, cws) ==
    {[event |-> ev, released |-> R] : R \in WakeConditionVariable(ews \cup cws)}

\* Condvar::notify_one, condvar.rs 105: WakeConditionVariable or PulseEvent;
\* the threads one call can release (ews wait for the event, cws sleep on the
\* condition variable) and the state of the event after it
Condvar_notify_one(k, ev, ews, cws) ==
    IF k = "SrwLock"
    THEN {[event |-> ev, released |-> R] : R \in WakeConditionVariable(cws)}
    ELSE {PulseEvent(ews)}

\* Condvar::notify_all, condvar.rs 121: WakeAllConditionVariable or PulseEvent
Condvar_notify_all(k, ev, ews, cws) ==
    IF k = "SrwLock"
    THEN {[event |-> ev, released |-> R] : R \in WakeAllConditionVariable(cws)}
    ELSE {PulseEvent(ews)}

\* a thread calls notify_one()
NotifyOne(t) ==
    \E p \in Condvar_notify_one(MUTEX_KIND, event, EventWaiters, cvWaiters) :
        Notify(t, p.released, p.event)

\* a thread calls notify_all()
NotifyAll(t) ==
    \E p \in Condvar_notify_all(MUTEX_KIND, event, EventWaiters, cvWaiters) :
        Notify(t, p.released, p.event)

\* no thread is inside an operation
Quiescent == \A u \in Threads : pc[u] \in {"idle", "panicked"}

\* the Mutex goes out of scope in thread t: LazyBox drop, impl Drop for InnerMutex
DropMutex(t) ==
    /\ Quiescent
    /\ "Mutex" \notin dropped
    /\ dropped' = dropped \cup {"Mutex"}
    /\ oscalls' = oscalls \cup LazyBox_drop(inner, InnerMutex_drop(MUTEX_KIND, prim, t))
    /\ UNCHANGED <<lockVars, tierVars, inner, cvinner, used, built, otherVars>>

\* the Condvar goes out of scope in thread t: LazyBox drop, impl Drop for CondvarImpl
DropCondvar(t) ==
    /\ Quiescent
    /\ "Condvar" \notin dropped
    /\ dropped' = dropped \cup {"Condvar"}
    /\ oscalls' = oscalls \cup LazyBox_drop(cvinner, CondvarImpl_drop(MUTEX_KIND))
    /\ UNCHANGED <<lockVars, tierVars, inner, cvinner, used, built, otherVars>>

CondvarStep(t) ==
    \/ CondvarSpurious(t)
    \/ CondvarTimeout(t)
    \/ CondvarReacquire(t)
    \/ EventWait(t)
    \/ EventWaitReturn(t)

(* ------------------ Mutex and Condvar used by threads ----------------- *)

Next ==
    \E t \in Threads :
        \/ CallLock(t)
        \/ CallTryLock(t)
        \/ CallUnlock(t)
        \/ MutexStep(t)
        \/ CallWait(t)
        \/ CallWaitTimeout(t)
        \/ CondvarStep(t)
        \/ NotifyOne(t)
        \/ NotifyAll(t)
        \/ DropMutex(t)
        \/ DropCondvar(t)
        \/ \E o \in CreatingOps : CreateFails(t, o)

Spec == Init /\ [][Next]_vars

\* a process of the Modern tier
InitWake == Init /\ MUTEX_KIND = "SrwLock"

\* the steps of the Mutex and of the Condvar on the Modern tier
NextWake ==
    \E t \in Threads :
        \/ CallLock(t)
        \/ CallTryLock(t)
        \/ CallUnlock(t)
        \/ MutexLockAcquire(t)
        \/ MutexTryLock(t)
        \/ MutexUnlockRelease(t)
        \/ CallWait(t)
        \/ CallWaitTimeout(t)
        \/ CondvarSpurious(t)
        \/ CondvarTimeout(t)
        \/ CondvarReacquire(t)
        \/ NotifyOne(t)
        \/ NotifyAll(t)

\* a woken sleeper that finds the slim lock free again and again obtains it
\* in the end
SpecWake ==
    InitWake /\ [][NextWake]_vars /\ \A t \in Threads : SF_vars(CondvarReacquire(t))

(* ------------------------------ rwlock.rs ----------------------------- *)

\* RwLock::read, rwlock.rs 20: srwlock.read() or, degraded, self.inner.lock()
CallRead(t) ==
    /\ holds[t] + rholds[t] < MaxDepth
    /\ Begin(t, "read", IF Degraded THEN "lock_enter" ELSE "read_enter")
    /\ UNCHANGED <<MUTEX_KIND, held, prim, srwlock, event, holds, rholds, tierVars, otherVars>>

\* RwLock::read, Modern tier: AcquireSRWLockShared
RwRead(t) ==
    /\ pc[t] = "read_enter"
    /\ SrwCanRead(srwlock)
    /\ srwlock' = SrwLock_read(srwlock)
    /\ Acquired(t)
    /\ Return(t, "unit")
    /\ UNCHANGED <<MUTEX_KIND, op, held, prim, event, wake, recursive, notified,
                   tierVars, lifeVars, otherVars>>

\* RwLock::try_read, rwlock.rs 27: srwlock.try_read() or self.inner.try_lock()
CallTryRead(t) ==
    /\ holds[t] + rholds[t] < MaxDepth
    /\ Begin(t, "try_read", IF Degraded THEN "try_enter" ELSE "try_read_enter")
    /\ UNCHANGED <<MUTEX_KIND, held, prim, srwlock, event, holds, rholds, tierVars, otherVars>>

\* RwLock::try_read, Modern tier: TryAcquireSRWLockShared
RwTryRead(t) ==
    /\ pc[t] = "try_read_enter"
    /\ LET r == SrwLock_try_read(srwlock) IN
          /\ srwlock' = r.srw
          /\ Return(t, IF r.ok THEN "true" ELSE "false")
          /\ IF r.ok THEN Acquired(t) ELSE UNCHANGED <<holds, rholds>>
    /\ UNCHANGED <<MUTEX_KIND, op, held, prim, event, wake, recursive, notified,
                   tierVars, lifeVars, otherVars>>

\* RwLock::write, rwlock.rs 34: srwlock.write() or self.inner.lock()
CallWrite(t) ==
    /\ holds[t] + rholds[t] < MaxDepth
    /\ Begin(t, "write", "lock_enter")
    /\ UNCHANGED <<MUTEX_KIND, held, prim, srwlock, event, holds, rholds, tierVars, otherVars>>

\* RwLock::try_write, rwlock.rs 41: srwlock.try_write() or self.inner.try_lock()
CallTryWrite(t) ==
    /\ holds[t] + rholds[t] < MaxDepth
    /\ Begin(t, "try_write", "try_enter")
    /\ UNCHANGED <<MUTEX_KIND, held, prim, srwlock, event, holds, rholds, tierVars, otherVars>>

\* RwLock::read_unlock, rwlock.rs 48, by a thread that holds read mode:
\* srwlock.read_unlock() or self.inner.unlock()
CallReadUnlock(t) ==
    /\ rholds[t] > 0
    /\ IF Degraded
       THEN UnlockBegin(t, "read_unlock")
       ELSE /\ Begin(t, "read_unlock", "read_release")
            /\ UNCHANGED <<MUTEX_KIND, held, prim, srwlock, event, holds, rholds,
                           tierVars, otherVars>>

\* RwLock::read_unlock, Modern tier: ReleaseSRWLockShared
RwReadUnlock(t) ==
    /\ pc[t] = "read_release"
    /\ srwlock' = SrwLock_read_unlock(srwlock)
    /\ Released(t)
    /\ Return(t, "unit")
    /\ UNCHANGED <<MUTEX_KIND, op, held, prim, event, wake, recursive, notified,
                   tierVars, lifeVars, otherVars>>

\* RwLock::write_unlock, rwlock.rs 55, by a thread that holds write mode:
\* srwlock.write_unlock() or self.inner.unlock()
CallWriteUnlock(t) ==
    /\ holds[t] > 0
    /\ UnlockBegin(t, "write_unlock")

RwStep(t) ==
    \/ RwRead(t)
    \/ RwTryRead(t)
    \/ RwReadUnlock(t)

NextRw ==
    \E t \in Threads :
        \/ CallRead(t)
        \/ CallTryRead(t)
        \/ CallWrite(t)
        \/ CallTryWrite(t)
        \/ CallReadUnlock(t)
        \/ CallWriteUnlock(t)
        \/ MutexStep(t)
        \/ RwStep(t)

SpecRw == Init /\ [][NextRw]_vars

(* ------------- one schedule of Mutex calls on the three tiers --------- *)

\* tm[k] is a Mutex under tier k with the state st of every thread towards it
\* ("idle", "blocked" in lock(), "panicked") and the acquisitions it holds.
\* Every step applies one call of the schedule to the three of them.

TM(x) == [held |-> x.held, prim |-> x.prim, srw |-> x.srw]

WithM(x, m) == [x EXCEPT !.held = m.held, !.prim = m.prim, !.srw = m.srw]

\* Mutex::lock as a whole call by t (or the end of a call that was blocked)
Tier_lock(k, x, t) ==
    IF ~Mutex_lock_available(k, TM(x), t)
    THEN [x |-> [x EXCEPT !.st[t] = "blocked"], obs |-> "blocked"]
    ELSE LET r == Mutex_lock_flag(k, Mutex_lock_acquire(k, TM(x), t)) IN
         IF r.ok
         THEN [x |-> [WithM(x, r.m) EXCEPT !.st[t] = "idle", !.holds[t] = @ + 1],
               obs |-> "returned"]
         ELSE [x |-> [WithM(x, r.m) EXCEPT !.st[t] = "panicked"], obs |-> "panic"]

\* Mutex::try_lock as a whole call by t
Tier_try_lock(k, x, t) ==
    LET r == Mutex_try_lock(k, TM(x), t) IN
    IF r.ok THEN [x |-> [WithM(x, r.m) EXCEPT !.holds[t] = @ + 1], obs |-> "true"]
    ELSE [x |-> WithM(x, r.m), obs |-> "false"]

\* Mutex::unlock as a whole call by t
Tier_unlock(k, x, t) ==
    [x |-> [WithM(x, Mutex_unlock(k, TM(x))) EXCEPT !.holds[t] = @ - 1],
     obs |-> "returned"]

AllTiers(t, s) == \A k \in MutexKind : tm[k].st[t] = s

TiersLock(t) ==
    /\ AllTiers(t, "idle")
    /\ \A k \in MutexKind : tm[k].holds[t] < MaxTierDepth
    /\ tm' = [k \in MutexKind |-> Tier_lock(k, tm[k], t).x]
    /\ obs' = [k \in MutexKind |-> Tier_lock(k, tm[k], t).obs]
    /\ UNCHANGED <<lockVars, lifeVars, otherVars>>

\* a lock() call that was blocked goes on where the primitive is available now
TiersResume(t) ==
    /\ AllTiers(t, "blocked")
    /\ \E k \in MutexKind : Mutex_lock_available(k, TM(tm[k]), t)
    /\ tm' = [k \in MutexKind |-> Tier_lock(k, tm[k], t).x]
    /\ obs' = [k \in MutexKind |-> Tier_lock(k, tm[k], t).obs]
    /\ UNCHANGED <<lockVars, lifeVars, otherVars>>

TiersTryLock(t) ==
    /\ AllTiers(t, "idle")
    /\ \A k \in MutexKind : tm[k].holds[t] < MaxTierDepth
    /\ tm' = [k \in MutexKind |-> Tier_try_lock(k, tm[k], t).x]
    /\ obs' = [k \in MutexKind |-> Tier_try_lock(k, tm[k], t).obs]
    /\ UNCHANGED <<lockVars, lifeVars, otherVars>>

\* unlock() by a thread that holds the Mutex, on every tier
TiersUnlock(t) ==
    /\ AllTiers(t, "idle")
    /\ \A k \in MutexKind : tm[k].holds[t] > 0
    /\ tm' = [k \in MutexKind |-> Tier_unlock(k, tm[k], t).x]
    /\ obs' = [k \in MutexKind |-> Tier_unlock(k, tm[k], t).obs]
    /\ UNCHANGED <<lockVars, lifeVars, otherVars>>

NextTiers ==
    \E t \in Threads :
        \/ TiersLock(t)
        \/ TiersResume(t)
        \/ TiersTryLock(t)
        \/ TiersUnlock(t)

\* MUTEX_KIND keeps the value of its initializer (compat.rs 13): every tm[k]
\* carries its own tier
InitTiers == Init /\ MUTEX_KIND = "SrwLock"

SpecTiers == InitTiers /\ [][NextTiers]_vars

(* --------------------- the startup initializer ------------------------ *)

\* the statements of init() (compat.rs) in their order
Phases == <<"version", "try_enter", "srw", "locks", "synch", "stack_overflow", "main">>

PhaseIndex(ph) == CHOOSE i \in DOMAIN Phases : Phases[i] = ph

\* the statement of init() that runs in phase ph, on the process state b
Statement(ph, b, h) ==
    CASE ph = "version" -> init_windows_version_check(b, h)
      [] ph = "try_enter" -> load_try_enter_critical_section_function(b, h)
      [] ph = "srw" -> load_srw_functions(b, h)
      [] ph = "locks" -> compat_init(b, h)
      [] ph = "synch" -> load_synch_functions(b, h)
      [] ph = "stack_overflow" -> load_stack_overflow_functions(b, h)

\* threads that use the locks exist before the lock probe of init() has run
Started_early == phase \notin {"version", "try_enter", "srw"}

\* init() has returned: it runs before main, when the process has one thread
Started == phase = "main"

\* init() runs its next statement; a panic ends it
Startup ==
    /\ phase \notin {"main", "panicked"}
    /\ SetBoot(Statement(phase, Boot, host))
    /\ phase' = IF Statement(phase, Boot, host).panic THEN "panicked"
                ELSE Phases[PhaseIndex(phase) + 1]
    /\ UNCHANGED <<host, opt, threadVars, tierVars, lifeVars, counterVars, bindVars>>

\* after startup, some code asks a compat_fn_optional! binding option(); one
\* query is observed in a run
Query(sym) ==
    /\ Started
    /\ opt[1] = "none"
    /\ opt' = <<sym, optional_option(PTR, sym)>>
    /\ UNCHANGED <<host, mapped, loadlib, PTR, phase, IS_NT, SUPPORTS_ASYNC_IO, kind_writes,
                   lockVars, tierVars, lifeVars, counterVars, bindVars>>

\* every combination of exported entry points: any subset of the preloaded
\* symbols, with or without CancelIo on an NT host; a 9x host does not
\* export CancelIo
Images ==
    {i \in {[exports |-> e \cup c,
             installed |-> {"kernel32", "api-ms-win-core-synch-l1-2-0"},
             nt |-> n] : e \in SUBSET OptionalSymbols, c \in SUBSET {"CancelIo"},
                         n \in BOOLEAN} :
        i.nt \/ "CancelIo" \notin i.exports}

\* a process on any image, before init() has run; kernel32 is mapped into
\* every process, the synch API set into some
InitImage ==
    /\ host \in Images
    /\ \E m \in SUBSET {"api-ms-win-core-synch-l1-2-0"} :
          BootIs(Statics({"kernel32"} \cup m))
    /\ phase = "version"
    /\ Fresh

NextInit ==
    \/ Startup
    \/ \E sym \in OptionalSymbols : Query(sym)

SpecInit == InitImage /\ [][NextInit]_vars

\* init() alone, up to the start of main
NextStartup == Startup

SpecStartup == InitImage /\ [][NextStartup]_vars

(* ------------- threads incrementing a counter under the Mutex --------- *)

counterFrame == <<MUTEX_KIND, event, holds, rholds, tierVars, bootVars, bindVars>>

\* the thread has left its loop
Done(t) == iter[t] = Iterations /\ pc[t] = "idle" /\ inc[t] = "unlock"

\* top of the loop body: lock()
LoopLock(t) ==
    /\ inc[t] \in {"none", "unlock"}
    /\ iter[t] < Iterations
    /\ Begin(t, "lock", "lock_enter")
    /\ inc' = [inc EXCEPT ![t] = "lock"]
    /\ UNCHANGED <<held, prim, srwlock, counter, iter, tmp, counterFrame>>

\* lock() has returned: the thread reads the counter
LoopRead(t) ==
    /\ inc[t] = "lock"
    /\ pc[t] = "idle"
    /\ tmp' = [tmp EXCEPT ![t] = counter]
    /\ inc' = [inc EXCEPT ![t] = "read"]
    /\ UNCHANGED <<threadVars, lifeVars, counter, iter, counterFrame>>

\* counter := counter + 1, with the value read
LoopWrite(t) ==
    /\ inc[t] = "read"
    /\ counter' = tmp[t] + 1
    /\ inc' = [inc EXCEPT ![t] = "write"]
    /\ UNCHANGED <<threadVars, lifeVars, iter, tmp, counterFrame>>

\* unlock(), the end of the iteration
LoopUnlock(t) ==
    /\ inc[t] = "write"
    /\ Begin(t, "unlock", "unlock_release")
    /\ SetMx(Mutex_unlock_clear(MUTEX_KIND, Mx))
    /\ inc' = [inc EXCEPT ![t] = "unlock"]
    /\ iter' = [iter EXCEPT ![t] = @ + 1]
    /\ UNCHANGED <<counter, tmp, counterFrame>>

LoopStep(t) ==
    \/ LoopLock(t)
    \/ MutexLockAcquire(t)
    \/ MutexLockFlag(t)
    \/ LoopRead(t)
    \/ LoopWrite(t)
    \/ LoopUnlock(t)
    \/ MutexUnlockRelease(t)

NextCounter == \E t \in Threads : LoopStep(t)

\* every thread that can take a step is scheduled in the end
SpecCounter == Init /\ [][NextCounter]_vars /\ \A t \in Threads : WF_vars(LoopStep(t))

(* ------------------ threads calling a lazy binding -------------------- *)

\* the bindings resolved on their first call
CalledSymbols == LazySymbols \cup FallbackSymbols

\* what a call of the function pointer func runs: the entry point, the
\* fallback body, the panic of `func.unwrap()` on None (compat_fn_lazy!: load),
\* or a jump to address 0
Target(func) ==
    CASE func = "real" -> "real"
      [] func = "fallback" -> "fallback"
      [] func = "None" -> "panic"
      [] func = "null" -> "null"

\* where the caller is after the target ran: back from the call, unwinding,
\* or stopped by the access violation of the jump to address 0
After(target) ==
    CASE target \in {"real", "fallback"} -> "idle"
      [] target = "panic" -> "panicked"
      [] target = "null" -> "crashed"

bindFrame == <<host, phase, IS_NT, SUPPORTS_ASYNC_IO, kind_writes, opt,
               lockVars, tierVars, lifeVars, counterVars>>

\* call(): `let func: F = mem::transmute(PTR.load(Relaxed))`; the threads of
\* a run call one and the same binding
BindCall(t, sym) ==
    /\ Started
    /\ bpc[t] = "idle"
    /\ \A u \in Threads : bsym[u] \in {"none", sym}
    /\ bsym' = [bsym EXCEPT ![t] = sym]
    /\ bfunc' = [bfunc EXCEPT ![t] = PTR[sym]]
    /\ bpc' = [bpc EXCEPT ![t] = "loaded"]
    /\ bquery' = [bquery EXCEPT ![t] = FALSE]
    /\ UNCHANGED <<targets, answers, PTR, mapped, loadlib, bindFrame>>

\* option() of a compat_fn_lazy! binding, available() of a
\* compat_fn_with_fallback! one: `PTR.load(Ordering::Relaxed)`
BindQuery(t, sym) ==
    /\ Started
    /\ bpc[t] = "idle"
    /\ \A u \in Threads : bsym[u] \in {"none", sym}
    /\ bsym' = [bsym EXCEPT ![t] = sym]
    /\ bfunc' = [bfunc EXCEPT ![t] = PTR[sym]]
    /\ bpc' = [bpc EXCEPT ![t] = "loaded"]
    /\ bquery' = [bquery EXCEPT ![t] = TRUE]
    /\ UNCHANGED <<targets, answers, PTR, mapped, loadlib, bindFrame>>

\* call() read `load` from PTR: load() runs the lookup of load_from_module
BindLookup(t) ==
    /\ bpc[t] = "loaded"
    /\ bfunc[t] = "load"
    /\ LET f == lookup(bsym[t], mapped, host) IN
          /\ mapped' = f.mapped
          /\ loadlib' = loadlib \cup f.loads
          /\ bfunc' = [bfunc EXCEPT ![t] = IF f.found THEN "found" ELSE "missing"]
    /\ bpc' = [bpc EXCEPT ![t] = "looked_up"]
    /\ UNCHANGED <<bsym, targets, bquery, answers, PTR, bindFrame>>

\* load_from_module stores into PTR and returns to load()
BindStore(t) ==
    /\ bpc[t] = "looked_up"
    /\ PTR' = [PTR EXCEPT ![bsym[t]] = store(bsym[t], bfunc[t] = "found")]
    /\ bfunc' = [bfunc EXCEPT ![t] = returned(bsym[t], bfunc[t] = "found")]
    /\ bpc' = [bpc EXCEPT ![t] = "resolved"]
    /\ UNCHANGED <<bsym, targets, bquery, answers, mapped, loadlib, bindFrame>>

\* `func(args)` of call(), `func(args)` / `(func.unwrap())(args)` of load()
BindInvoke(t) ==
    /\ ~bquery[t]
    /\ \/ bpc[t] = "loaded" /\ bfunc[t] # "load"
       \/ bpc[t] = "resolved"
    /\ targets' = [targets EXCEPT ![bsym[t]] = @ \cup {Target(bfunc[t])}]
    /\ bpc' = [bpc EXCEPT ![t] = After(Target(bfunc[t]))]
    /\ UNCHANGED <<bsym, bfunc, bquery, answers, PTR, mapped, loadlib, bindFrame>>

\* what the query returns: available() compares the pointer with fallback;
\* option() returns the Option of load_from_module, or wraps the pointer it
\* read from PTR
Answers(sym, p, fresh) ==
    IF sym \in FallbackSymbols THEN {available(p)}
    ELSE IF fresh THEN {p = "real"}
    ELSE Some_transmute(p)

\* the query returns to its caller
BindAnswer(t) ==
    /\ bquery[t]
    /\ \/ bpc[t] = "loaded" /\ bfunc[t] # "load"
       \/ bpc[t] = "resolved"
    /\ \E a \in Answers(bsym[t], bfunc[t], bpc[t] = "resolved") :
          answers' = [answers EXCEPT ![bsym[t]] = @ \cup {a}]
    /\ bpc' = [bpc EXCEPT ![t] = "idle"]
    /\ UNCHANGED <<bsym, bfunc, bquery, targets, PTR, mapped, loadlib, bindFrame>>

\* a process after init(), on a host that exports any of the four entry
\* points, with userenv and bcrypt installed or not, and mapped into the
\* process or not when installed, NT or not
InitBind ==
    /\ \E e \in SUBSET CalledSymbols, i \in SUBSET {"userenv", "bcrypt"}, n \in BOOLEAN :
          \E m \in SUBSET i :
              /\ host = [exports |-> e, installed |-> {"kernel32"} \cup i, nt |-> n]
              /\ BootIs(init(Statics({"kernel32"} \cup m), host))
    /\ phase = "main"
    /\ Fresh

NextBind ==
    \E t \in Threads :
        \/ \E sym \in CalledSymbols : BindCall(t, sym)
        \/ BindLookup(t)
        \/ BindStore(t)
        \/ BindInvoke(t)

SpecBind == InitBind /\ [][NextBind]_vars

\* the threads ask the bindings whether they are available
NextQuery ==
    \E t \in Threads :
        \/ \E sym \in CalledSymbols : BindQuery(t, sym)
        \/ BindLookup(t)
        \/ BindStore(t)
        \/ BindAnswer(t)

SpecQuery == InitBind /\ [][NextQuery]_vars

\* a process on one of the three hosts, before init() has run
InitProc ==
    /\ \E name \in Hosts : host = HostImage(name)
    /\ BootIs(Statics({"kernel32"}))
    /\ phase = "version"
    /\ Fresh

\* init(), and then the threads of the process using a Mutex and a Condvar
NextProc ==
    \/ Startup
    \/ Started /\ Next

SpecProc == InitProc /\ [][NextProc]_vars

(* ---------------------- properties of the Mutex ----------------------- *)

\* t is inside the critical section: an acquisition returned to it, not yet released
InCS(t) == holds[t] > 0

\* some thread other than t owns the OS primitive of the Mutex
OtherOwns(t) ==
    IF Degraded THEN prim.owner \notin {NoThread, t}
    ELSE \E u \in Threads \ {t} : holds[u] > 0

\* no thread owns the OS primitive of the Mutex
Unowned == IF Degraded THEN prim.owner = NoThread ELSE SrwCanWrite(srwlock)

\* t holds the Mutex and nobody else does
HoldsExclusively(t) ==
    /\ holds[t] > 0
    /\ \A u \in Threads \ {t} : holds[u] = 0
    /\ IF Degraded THEN prim.owner = t /\ held ELSE srwlock.excl

\* C1: on every tier at most one thread is inside the critical section of
\* the Mutex at any instant
C1_MutualExclusion == Cardinality({t \in Threads : InCS(t)}) <= 1

\* C1: a thread is inside the critical section while another waits in lock()
C1_Witness ==
    \E t, u \in Threads : t # u /\ InCS(t) /\ pc[u] = "lock_enter" /\ op[u] = "lock"

\* C2: a lock() call made by a thread that already holds the Mutex never
\* returns normally and never blocks forever (it panics), on every tier
C2_RecursiveLockPanics ==
    \A t \in Threads :
        op[t] = "lock" /\ recursive[t] =>
            /\ pc[t] # "idle"
            /\ ~(pc[t] = "lock_enter" /\ ~Degraded /\ srwlock.excl /\ holds[t] > 0)

\* C3: try_lock() called by a thread that already holds the Mutex returns
\* false, never true, after any prior sequence of operations
C3_RecursiveTryLockFalse ==
    \A t \in Threads :
        op[t] = "try_lock" /\ recursive[t] /\ pc[t] = "idle" => ret[t] = "false"

\* C4: try_lock() never blocks; when another thread owns the Mutex it returns
\* false and leaves the Mutex as it was, when no thread owns it it returns true
\* and the caller holds the Mutex
C4_TryLock ==
    /\ [](\A t \in Threads : pc[t] = "try_enter" => ENABLED MutexTryLock(t))
    /\ [][\A t \in Threads :
            pc[t] = "try_enter" /\ pc'[t] # "try_enter" =>
                /\ pc'[t] = "idle"
                /\ OtherOwns(t) =>
                      ret'[t] = "false" /\ UNCHANGED <<held, prim, srwlock, holds>>
                /\ Unowned =>
                      ret'[t] = "true" /\ HoldsExclusively(t)']_vars

\* C4: a try_lock() returned true on a free Mutex and another thread's
\* try_lock() then returned false
C4_Witness ==
    \E t, u \in Threads :
        /\ t # u
        /\ op[t] = "try_lock" /\ pc[t] = "idle" /\ ret[t] = "true" /\ ~recursive[t]
        /\ op[u] = "try_lock" /\ pc[u] = "idle" /\ ret[u] = "false"
        /\ HoldsExclusively(t)

(* ---------------------- properties of the Condvar --------------------- *)

\* C6: when wait(mutex) returns, however it was woken, the caller holds the
\* mutex exclusively again
C6_WaitReturnsHolding ==
    \A t \in Threads : op[t] = "wait" /\ pc[t] = "idle" => HoldsExclusively(t)

\* C6: a wait() woken by a notify has returned
C6_Witness ==
    \E t \in Threads : op[t] = "wait" /\ pc[t] = "idle" /\ wake[t] = "notify"

\* C7 as stated: a wait_timeout during which a notify was issued, between the
\* caller's entry and the expiry of the timeout, returns true
C7_NotifyInWindowReturnsTrue ==
    \A t \in Threads :
        op[t] = "wait_timeout" /\ pc[t] = "idle" /\ notified[t] => ret[t] = "true"

\* C7 amended: wait_timeout returns false only when its OS wait ended by the
\* timeout, and returns true whenever a notify released the caller from its
\* OS wait
C7_NotifyThatWakesReturnsTrue ==
    \A t \in Threads :
        op[t] = "wait_timeout" /\ pc[t] = "idle" =>
            /\ wake[t] = "notify" => ret[t] = "true"
            /\ ret[t] = "false" => wake[t] = "timeout"

\* C7: a wait_timeout returned true after a notify released it from its wait,
\* on a degraded tier
C7_Witness ==
    \E t \in Threads :
        /\ Degraded
        /\ op[t] = "wait_timeout" /\ pc[t] = "idle"
        /\ notified[t] /\ wake[t] = "notify" /\ ret[t] = "true"

\* C8: a wait_timeout that ends by the timeout does not panic, returns false
\* and leaves the caller holding the mutex
C8_TimeoutIsNormalReturn ==
    \A t \in Threads :
        op[t] = "wait_timeout" /\ wake[t] = "timeout" =>
            /\ pc[t] # "panicked"
            /\ pc[t] = "idle" => ret[t] = "false" /\ HoldsExclusively(t)

\* C8: a wait_timeout has returned after its timeout expired
C8_Witness ==
    \E t \in Threads :
        op[t] = "wait_timeout" /\ wake[t] = "timeout" /\ pc[t] = "idle"

(* ------------------ properties across the three tiers ----------------- *)

\* C5: for one schedule of lock(), try_lock() and unlock() calls the three
\* tiers produce the same observable outcome at every step: the same
\* try_lock() results, the same calls blocked or returned, the same panics
C5_TiersAgree == \A j, k \in MutexKind : obs[j] = obs[k]

(* ---------------------- properties of the RwLock ---------------------- *)

\* C9: under the Modern tier no thread holds read mode while another holds
\* write mode, and at most one thread holds write mode
C9_ReadersExcludeWriter ==
    MUTEX_KIND = "SrwLock" =>
        /\ \A t, u \in Threads : t # u => ~(rholds[t] > 0 /\ holds[u] > 0)
        /\ Cardinality({t \in Threads : holds[t] > 0}) <= 1

\* C9: under the Modern tier a reader holds the RwLock once a try_read
\* succeeded, while a writer waits in write() and a try_write was refused
C9_Witness ==
    /\ MUTEX_KIND = "SrwLock"
    /\ \E t, u \in Threads :
          /\ t # u
          /\ rholds[t] > 0 /\ op[t] = "try_read" /\ ret[t] = "true"
          /\ op[u] = "write" /\ pc[u] = "lock_enter"

\* no thread holds write mode or is inside a write(), try_write() or write_unlock()
NoWriter ==
    \A u \in Threads : holds[u] = 0 /\ (pc[u] # "idle" => op[u] \in ReadOps)

\* C10: under the Modern tier, with no writer present, a reader is
\* never kept waiting by the other readers: read() can always take its share,
\* so all the threads can hold read mode at the same time
C10_ReadersShare ==
    MUTEX_KIND = "SrwLock" =>
        \A t \in Threads :
            pc[t] = "read_enter" /\ NoWriter => ENABLED RwRead(t)

\* C10: every thread called read() and all of them hold read mode, before
\* any of them has called read_unlock()
C10_Witness ==
    /\ MUTEX_KIND = "SrwLock"
    /\ \A t \in Threads : op[t] = "read" /\ pc[t] = "idle" /\ rholds[t] = 1
    /\ srwlock.shared = NumThreads

\* C11: under the Intermediate and Legacy tiers at most one thread holds the
\* RwLock at any instant, in read or in write mode; in particular at most one
\* thread is between read() and read_unlock()
C11_DegradedReadersSerialize ==
    Degraded =>
        /\ Cardinality({t \in Threads : holds[t] + rholds[t] > 0}) <= 1
        /\ Cardinality({t \in Threads : rholds[t] > 0}) <= 1

\* C11: on a degraded tier a reader holds the RwLock while another thread is
\* kept waiting inside read()
C11_Witness ==
    /\ Degraded
    /\ \E t, u \in Threads :
          /\ t # u
          /\ rholds[t] > 0 /\ op[t] = "read" /\ pc[t] = "idle"
          /\ op[u] = "read" /\ pc[u] = "lock_enter"

(* ------------------- properties of the lazy records -------------------- *)

\* the OS calls that create or destroy the object behind a Mutex
MutexObjectCalls ==
    {"InitializeCriticalSection", "CreateMutexA", "DeleteCriticalSection",
     "CloseHandle(mutex)"}

\* the OS calls that create or destroy the object behind a Condvar
CondvarObjectCalls == {"CreateEventA", "CloseHandle(event)"}

\* C20: Mutex::new, Condvar::new and RwLock::new create no OS object and no
\* variant record; the record exists only once an operation was called on
\* the primitive (and is then the record of the process tier), and a
\* primitive no operation was ever called on has made no OS call that
\* creates or destroys an object, also after it was dropped.
C20_NewIsLazy ==
    /\ "Mutex" \notin used => inner = "null" /\ oscalls \cap MutexObjectCalls = {}
    /\ "Condvar" \notin used =>
           cvinner = "null" /\ oscalls \cap CondvarObjectCalls = {}
    /\ "Mutex" \in used => inner = MUTEX_KIND
    /\ "Condvar" \in used => cvinner = MUTEX_KIND

\* a Mutex that was never operated on has been dropped, next to a Condvar
\* whose first notify created its event on a degraded tier
C20_Witness ==
    /\ "Mutex" \notin used
    /\ "Mutex" \in dropped
    /\ "Condvar" \in used
    /\ "CreateEventA" \in oscalls
    /\ Degraded

(* ------------------ properties of the startup probe -------------------- *)

\* the preload group a compat_fn_optional! binding is loaded with
GroupOf(sym) ==
    CASE sym \in Elements(SrwFunctions) -> SrwFunctions
      [] sym \in Elements(TryEnterCriticalSectionFunction) ->
            TryEnterCriticalSectionFunction
      [] sym \in Elements(SynchFunctions) -> SynchFunctions
      [] sym \in Elements(StackOverflowFunctions) -> StackOverflowFunctions

\* the host has the module of the group mapped and exports every symbol of it
GroupPresent(group) ==
    /\ ModuleOf(Head(group)) \in mapped
    /\ Elements(group) \subseteq host.exports

\* the host has the module of the symbol mapped and exports the symbol
SymbolPresent(sym) == ModuleOf(sym) \in mapped /\ sym \in host.exports

\* C14 as stated: after the startup probe the tier is Modern if the slim-lock
\* try-acquire entry point is present, otherwise Intermediate if the
\* critical-section try-enter entry point is present, otherwise Legacy.
C14_TierByTryAcquire ==
    Started =>
        MUTEX_KIND =
            IF SymbolPresent("TryAcquireSRWLockExclusive") THEN "SrwLock"
            ELSE IF SymbolPresent("TryEnterCriticalSection") THEN "CriticalSection"
            ELSE "Legacy"

\* C14, amended: after the startup probe, for every combination of exported
\* entry points, the tier is Modern if all nine entry points of the slim-lock
\* preload group are present, otherwise Intermediate if the critical-section
\* try-enter entry point is present, otherwise Legacy.
C14_TierByGroup ==
    Started =>
        MUTEX_KIND =
            IF GroupPresent(SrwFunctions) THEN "SrwLock"
            ELSE IF GroupPresent(TryEnterCriticalSectionFunction)
                 THEN "CriticalSection"
            ELSE "Legacy"

\* the probe has run on a host that exports the try-acquire entry point but
\* not the whole slim-lock group, and chose the Intermediate tier
C14_Witness ==
    /\ Started
    /\ SymbolPresent("TryAcquireSRWLockExclusive")
    /\ ~GroupPresent(SrwFunctions)
    /\ MUTEX_KIND = "CriticalSection"

\* C19 as stated: option() of a soft-optional binding returns Some exactly
\* when the preload found the module and the symbol, and the query never
\* changes the memo cell.
C19_SomeIffSymbolFound ==
    /\ \A sym \in OptionalSymbols :
          Started /\ opt[1] = sym => (opt[2] <=> SymbolPresent(sym))
    /\ Started => \A sym \in OptionalSymbols : PTR[sym] \in {"null", "real"}

\* C19, amended: option() of a soft-optional binding returns Some exactly
\* when the preload of the binding's whole group succeeded (it found the
\* module and every symbol of the group), and None otherwise; the memo cell
\* is "real" or null after startup and stays what it is across queries.
C19_SomeIffGroupFound ==
    /\ \A sym \in OptionalSymbols :
          Started /\ opt[1] = sym => (opt[2] <=> GroupPresent(GroupOf(sym)))
    /\ Started =>
          \A sym \in OptionalSymbols :
              PTR[sym] = IF GroupPresent(GroupOf(sym)) THEN "real" ELSE "null"

\* option() answered None for an exported symbol of a mapped module, another
\* symbol of its group being missing
C19_Witness ==
    /\ Started
    /\ opt = <<"WaitOnAddress", FALSE>>
    /\ SymbolPresent("WaitOnAddress")
    /\ ~SymbolPresent("WakeByAddressSingle")

\* C15: the tier is written exactly once per process, by the probe of
\* init(); once an operation of a Mutex, Condvar or RwLock has read it, it
\* never changes; and the variant record of a primitive is at every moment
\* the variant of the current tier, so that no primitive is operated on under
\* a tier other than the one it was constructed under.
C15_TierWrittenOnce ==
    /\ [](kind_writes <= 1 /\ (phase = "main" => kind_writes = 1))
    /\ [][used # {} => MUTEX_KIND' = MUTEX_KIND]_vars
    /\ [](inner \in {"null", MUTEX_KIND} /\ cvinner \in {"null", MUTEX_KIND})

\* on a host whose probe wrote a tier other than the static's initial value,
\* a Mutex and a Condvar have been constructed and operated on
C15_Witness ==
    /\ kind_writes = 1
    /\ MUTEX_KIND = "Legacy"
    /\ inner = "Legacy"
    /\ cvinner = "Legacy"
    /\ \E t \in Threads : holds[t] > 0

(* ------------------ properties of the lazy bindings -------------------- *)

\* C12: when several threads invoke the same hard-fallback binding
\* concurrently for the first time, every invocation of the run, by every
\* thread, executes the same target: all the real entry point or all the
\* fallback, never a mix (and nothing else).
C12_OneTarget ==
    \A sym \in FallbackSymbols :
        targets[sym] \subseteq {"real"} \/ targets[sym] \subseteq {"fallback"}

\* one thread has resolved the binding and executed its target while another,
\* which also read `load` from PTR, is between its lookup and its store
C12_Witness ==
    \E t, u \in Threads, sym \in FallbackSymbols :
        /\ t # u
        /\ bsym[t] = sym /\ bsym[u] = sym
        /\ bpc[t] = "looked_up"
        /\ bpc[u] = "idle"
        /\ targets[sym] # {}

\* C16: for a hard-fallback binding whose symbol cannot be resolved, every
\* call executes the fallback: the call that resolves as well as every later
\* call from any thread; the cell never holds anything but `load` or the
\* fallback.
C16_FallbackAlways ==
    \A sym \in FallbackSymbols :
        ~SymbolPresent(sym) =>
            /\ targets[sym] \subseteq {"fallback"}
            /\ PTR[sym] \in {"load", "fallback"}
            /\ \A t \in Threads :
                  bsym[t] = sym /\ bpc[t] = "resolved" => bfunc[t] = "fallback"

\* the symbol is missing, a first call has executed the fallback and a later
\* call has read the fallback from PTR
C16_Witness ==
    \E t \in Threads, sym \in FallbackSymbols :
        /\ ~SymbolPresent(sym)
        /\ targets[sym] = {"fallback"}
        /\ bsym[t] = sym /\ bpc[t] = "loaded" /\ bfunc[t] = "fallback"

\* C17: for a panic-on-missing binding whose symbol cannot be resolved,
\* every invocation ends in a panic, the first and every later one from any
\* thread; no invocation transfers control to the null value of the cell.
C17_MissingAlwaysPanics ==
    \A sym \in LazySymbols :
        ~SymbolPresent(sym) => targets[sym] \subseteq {"panic"}

\* no thread has called the binding and init() did not resolve it
Untouched(sym) ==
    /\ targets[sym] = {}
    /\ \A t \in Threads : bsym[t] # sym
    /\ ~(sym = "CancelIo" /\ IS_NT)

\* C18: the memo cell of a binding starts unresolved (it holds `load` until
\* the binding is first used); under any interleaving of threads that
\* resolve it concurrently, once it holds a resolved address or the
\* unavailable/fallback value it never returns to unresolved and never
\* changes to another value.
C18_MemoCellSettles ==
    /\ [](\A sym \in CalledSymbols : Untouched(sym) => PTR[sym] = "load")
    /\ [][\A sym \in CalledSymbols : PTR[sym] # "load" => PTR'[sym] = PTR[sym]]_vars

\* two threads read `load` and looked the symbol up; one has stored, the
\* store of the other is still to come
C18_Witness ==
    \E t, u \in Threads :
        /\ t # u
        /\ bsym[t] = bsym[u]
        /\ bpc[t] = "resolved"
        /\ bpc[u] = "looked_up"
        /\ PTR[bsym[t]] # "load"

(* ------------------- properties of the counter loop -------------------- *)

\* C13: on every tier, when the threads each run Iterations iterations of
\* lock(); counter := counter + 1; unlock() on one shared Mutex, every thread
\* terminates and the final counter is the number of threads times
\* Iterations, for every interleaving.
C13_CounterLoop ==
    /\ <>(\A t \in Threads : Done(t))
    /\ []((\A t \in Threads : Done(t)) => counter = NumThreads * Iterations)

\* every thread has left its loop and the counter has its final value
C13_Witness ==
    /\ \A t \in Threads : Done(t)
    /\ counter = NumThreads * Iterations
    /\ held = FALSE

(* --------------- properties of the records' construction --------------- *)

\* C21: when several threads perform the first operation on the same Mutex
\* concurrently, exactly one variant record is built and becomes the state
\* of the Mutex; every operation that has got past its deref acts on that
\* record, and the record's variant never changes afterwards.
C21_OneRecord ==
    /\ [](built <= 1)
    /\ []((built = 1) <=> (inner # "null"))
    /\ []("Mutex" \in used => inner # "null")
    /\ [][inner # "null" => inner' = inner]_vars

\* two threads are inside their first lock() on the Mutex at the same time,
\* neither has the OS primitive yet, and one record exists
C21_Witness ==
    /\ \A t \in Threads : pc[t] = "lock_enter" /\ op[t] = "lock" /\ holds[t] = 0
    /\ Unowned
    /\ built = 1
    /\ inner = MUTEX_KIND

\* C22: on the Intermediate tier a Mutex dropped while its critical section
\* is locked is leaked, whichever thread holds it (the dropping thread
\* included): DeleteCriticalSection is only ever called on a critical
\* section that no thread holds.
C22_DeleteOnlyUnheld ==
    (MUTEX_KIND = "CriticalSection" /\ "DeleteCriticalSection" \in oscalls)
        => prim.owner = NoThread

(* ----------------- properties of the held flag ----------------- *)

\* C30: on the degraded tiers, in every state between operations and after
\* any sequence of lock / try_lock / unlock (rejected recursive attempts
\* included), the held flag is true exactly when some thread owns the OS
\* primitive.
C30_HeldIffOwned ==
    (Degraded /\ Quiescent) => (held <=> prim.owner # NoThread)

\* C29: on the degraded tiers every read and every write of the held flag
\* is made by a thread that owns the OS primitive at that moment, unlock()
\* clears the flag before it releases the primitive, and no two threads
\* access the flag concurrently.
C29_FlagUnderPrimitive ==
    /\ [](Degraded =>
            \A t \in Threads :
                /\ pc[t] \in {"lock_flag", "unlock_release"} => prim.owner = t
                /\ pc[t] = "unlock_release" => ~held
                /\ \A u \in Threads \ {t} :
                      ~(pc[t] \in {"lock_flag", "unlock_release"}
                            /\ pc[u] \in {"lock_flag", "unlock_release"}))
    /\ [][(Degraded /\ held' # held) =>
            \E t \in Threads :
                /\ pc'[t] # pc[t]
                /\ \A u \in Threads \ {t} : pc'[u] = pc[u]
                /\ IF pc[t] = "try_enter" THEN PrimAvailable(prim, t)
                   ELSE prim.owner = t]_vars

\* a thread is inside unlock(), past the clearing of the flag and before the
\* release, while the other thread is blocked inside lock()
C29_Witness ==
    /\ Degraded
    /\ \E t, u \in Threads :
          /\ t # u
          /\ pc[t] = "unlock_release" /\ op[t] = "unlock"
          /\ pc[u] = "lock_enter" /\ op[u] = "lock"
          /\ ~held /\ prim.owner = t

(* ----------------- properties of the notifications ----------------- *)

C28_NotifyInWindowIsLost ==
    /\ [](Degraded => ~event)
    /\ [][Degraded =>
            \A a \in Threads :
                /\ (pc[a] = "event_wait" /\ \E t \in Threads : NotifyOne(t) \/ NotifyAll(t))
                      => (pc'[a] = "event_wait" /\ wake'[a] = wake[a] /\ ~event')
                /\ (pc[a] = "event_wait" /\ pc'[a] # "event_wait")
                      => pc'[a] = "event_blocked"
                /\ (pc[a] = "event_blocked" /\ pc'[a] # "event_blocked")
                      => /\ pc'[a] = "event_woken"
                         /\ \/ /\ wake'[a] = "notify"
                               /\ \E t \in Threads \ {a} : NotifyOne(t) \/ NotifyAll(t)
                            \/ /\ wake'[a] = "timeout"
                               /\ op[a] = "wait_timeout"
                               /\ CondvarTimeout(a)]_vars

\* a notify arrived between the unlock and the event wait of a wait_timeout
\* caller, which is now blocked in the event wait
C28_Witness ==
    /\ Degraded
    /\ \E a \in Threads :
          op[a] = "wait_timeout" /\ notified[a] /\ pc[a] = "event_blocked"

(* -------------------- properties of the waits -------------------- *)

\* C27: on the degraded tiers wait(mutex) performs unlock(mutex), the event
\* wait and lock(mutex) in that order; while the caller is blocked in the
\* event wait it does not hold the mutex and has not left the held flag set,
\* so that the lock() of another thread obtains the primitive and passes
\* flag_locked() without a recursion failure.
C27_WaitReleasesMutex ==
    Degraded =>
        \A a \in Threads :
            (op[a] = "wait" /\ pc[a] \in {"event_wait", "event_blocked"}) =>
                /\ holds[a] = 0
                /\ prim.owner # a
                /\ prim.owner = NoThread => ~held
                /\ \A b \in Threads \ {a} :
                      /\ (op[b] = "lock" /\ pc[b] = "lock_enter" /\ holds[b] = 0
                              /\ prim.owner \notin Threads \ {a, b})
                            => ENABLED MutexLockAcquire(b)
                      /\ (op[b] = "lock" /\ pc[b] = "lock_flag" /\ holds[b] = 0)
                            => ~held

C23_CreateFailurePanics ==
    /\ [](inner \in {"null", MUTEX_KIND} /\ cvinner \in {"null", MUTEX_KIND})
    /\ [][\A t \in Threads :
            (\E o \in CreatingOps : CreateFails(t, o)) =>
                /\ pc'[t] = "panicked" /\ ret'[t] = "panic"
                /\ UNCHANGED <<inner, cvinner>>]_vars
    /\ [](\A t \in Threads :
            pc[t] \notin {"idle", "panicked"} =>
                /\ inner = MUTEX_KIND
                /\ op[t] \in CondvarOps => cvinner = MUTEX_KIND)

\* the notify of one thread panicked because the event could not be created,
\* and the other thread later got into its wait on the Condvar, whose record
\* was built then
C23_Witness ==
    /\ Degraded
    /\ \E t, u \in Threads :
          /\ pc[t] = "panicked" /\ op[t] \in {"notify_one", "notify_all"}
          /\ pc[u] = "event_blocked" /\ cvinner = MUTEX_KIND

(* ------------------ properties of the startup's end ------------------ *)

\* C24: for every subset of the probed entry points that the host exports
\* (the nine slim-lock and condition-variable functions,
\* TryEnterCriticalSection, WaitOnAddress, WakeByAddressSingle, the
\* stack-overflow functions, CancelIo) the startup initializer runs every
\* statement to its end without a panic and leaves the tier set to one of
\* Modern, Intermediate or Legacy.
C24_StartupCompletes ==
    /\ phase # "panicked"
    /\ phase \in Elements(Phases)
    /\ Started => /\ kind_writes = 1
                  /\ MUTEX_KIND \in MutexKind
                  /\ MUTEX_KIND = locks_compat_init(PTR)

\* startup has completed on an NT host that exports neither CancelIo nor
\* any other probed entry point
C24_Witness ==
    /\ Started
    /\ host.nt /\ host.exports = {}
    /\ MUTEX_KIND = "Legacy" /\ ~SUPPORTS_ASYNC_IO

(* ---------------- properties of the rejected recursion ---------------- *)

\* C31: on the degraded tiers a lock() or try_lock() that detects recursion
\* releases exactly the one acquisition of the OS primitive it has just made
\* before it fails: the caller's ownership count after the failed call
\* equals its count before the call.
C31_RejectionRestoresCount ==
    /\ [](Degraded =>
            \A t \in Threads :
                /\ (prim.owner = t /\ pc[t] \in {"idle", "lock_enter", "try_enter"})
                      => prim.count = holds[t]
                /\ (prim.owner = t /\ pc[t] = "lock_flag")
                      => prim.count = holds[t] + 1)
    /\ [][Degraded =>
            \A t \in Threads :
                /\ (pc[t] = "lock_flag" /\ pc'[t] = "panicked")
                      => /\ prim'.owner = t
                         /\ prim'.count = prim.count - 1
                         /\ prim'.count = holds[t] /\ holds'[t] = holds[t]
                /\ (pc[t] = "try_enter" /\ pc'[t] = "idle" /\ prim.owner = t
                        /\ ret'[t] = "false")
                      => prim' = prim /\ holds'[t] = holds[t]]_vars

\* a recursive lock() has panicked and its caller owns the primitive once,
\* as before the call
C31_Witness ==
    /\ Degraded
    /\ \E t \in Threads :
          /\ op[t] = "lock" /\ recursive[t] /\ pc[t] = "panicked"
          /\ prim = [owner |-> t, count |-> 1] /\ holds[t] = 1

\* C32: on the degraded tiers lock() never fails with the recursion error
\* when its caller does not hold the Mutex: a lock() panics only when the
\* calling thread held the Mutex at the call, the lock() at the end of a wait
\* never panics, and a try_lock() on a Mutex that no thread owns returns true.
C32_NoFalseRecursion ==
    [][Degraded =>
        \A t \in Threads :
            /\ (pc[t] = "lock_flag" /\ pc'[t] = "panicked")
                  => (op[t] = "lock" /\ recursive[t] /\ holds[t] > 0)
            /\ (pc[t] = "lock_flag" /\ ~recursive[t] /\ pc'[t] # "lock_flag")
                  => (pc'[t] = "idle" /\ holds'[t] = holds[t] + 1)
            /\ (pc[t] = "try_enter" /\ op[t] = "try_lock" /\ pc'[t] = "idle"
                    /\ prim.owner = NoThread)
                  => ret'[t] = "true"]_vars

\* a lock() returned on a Mutex that the other thread had locked and
\* unlocked before
C32_Witness ==
    /\ Degraded
    /\ \E t, u \in Threads :
          /\ t # u
          /\ op[u] = "unlock" /\ pc[u] = "idle" /\ holds[u] = 0
          /\ op[t] = "lock" /\ pc[t] = "idle" /\ ~recursive[t] /\ HoldsExclusively(t)

(* -------------- properties of the bindings the locks call -------------- *)

\* the operations of Mutex, Condvar and RwLock, and the drop of a Mutex
LockOps ==
    {"lock", "try_lock", "unlock", "wait", "wait_timeout", "notify_one",
     "notify_all", "read", "try_read", "write", "try_write", "read_unlock",
     "write_unlock", "drop"}

\* the compat_fn_optional! bindings operation o calls under tier k
\* (srwlock.rs, condvar.rs, critical_section_mutex.rs)
Bindings(k, o) ==
    CASE k = "SrwLock" ->
            CASE o \in {"lock", "write"} -> {"AcquireSRWLockExclusive"}
              [] o \in {"try_lock", "try_write"} -> {"TryAcquireSRWLockExclusive"}
              [] o \in {"unlock", "write_unlock"} -> {"ReleaseSRWLockExclusive"}
              [] o = "read" -> {"AcquireSRWLockShared"}
              [] o = "try_read" -> {"TryAcquireSRWLockShared"}
              [] o = "read_unlock" -> {"ReleaseSRWLockShared"}
              [] o \in {"wait", "wait_timeout"} -> {"SleepConditionVariableSRW"}
              [] o = "notify_one" -> {"WakeConditionVariable"}
              [] o = "notify_all" -> {"WakeAllConditionVariable"}
              [] OTHER -> {}
      [] k = "CriticalSection" ->
            IF o \in {"try_lock", "try_read", "try_write", "drop"}
            THEN {"TryEnterCriticalSection"} ELSE {}
      [] k = "Legacy" -> {}

\* C33: no Mutex, Condvar or RwLock operation calls a soft-optional binding
\* whose memo cell is null: after startup, on the Modern tier all nine
\* slim-lock and condition-variable entry points are resolved, and
\* TryEnterCriticalSection is called (by try_lock or by the drop) only on the
\* Intermediate tier, where it is resolved.
C33_CalledBindingsResolved ==
    Started =>
        /\ \A o \in LockOps : \A sym \in Bindings(MUTEX_KIND, o) : PTR[sym] = "real"
        /\ MUTEX_KIND = "SrwLock" => \A sym \in Elements(SrwFunctions) : PTR[sym] = "real"
        /\ \A o \in LockOps :
              "TryEnterCriticalSection" \in Bindings(MUTEX_KIND, o)
                  => (MUTEX_KIND = "CriticalSection" /\ PTR["TryEnterCriticalSection"] = "real")

\* startup chose the Intermediate tier on a host that exports
\* TryAcquireSRWLockExclusive but not the whole slim-lock group
C33_Witness ==
    /\ Started
    /\ "TryAcquireSRWLockExclusive" \in host.exports
    /\ PTR["TryAcquireSRWLockExclusive"] = "null"
    /\ MUTEX_KIND = "CriticalSection"
    /\ PTR["TryEnterCriticalSection"] = "real"

\* the groups preloaded by load_srw_functions, load_synch_functions and
\* load_stack_overflow_functions
PreloadGroups == {SrwFunctions, SynchFunctions, StackOverflowFunctions}

\* C34: preloading a group of soft-optional bindings is all-or-nothing: once
\* its load function has returned, either every binding of the group holds a
\* resolved address or none of them was written, for every subset of the
\* group's symbols that the module exports.
C34_GroupAllOrNothing ==
    \A group \in PreloadGroups :
        /\ \/ \A sym \in Elements(group) : PTR[sym] = "real"
           \/ \A sym \in Elements(group) : PTR[sym] = "null"
        /\ Started =>
              ((\A sym \in Elements(group) : PTR[sym] = "real") <=> GroupPresent(group))

\* startup has ended on a host that exports the first entry points of the
\* slim-lock group but not the last one, and the whole stack-overflow group
C34_Witness ==
    /\ Started
    /\ {"TryAcquireSRWLockExclusive", "TryAcquireSRWLockShared"} \subseteq host.exports
    /\ "WakeConditionVariable" \notin host.exports
    /\ \A sym \in Elements(SrwFunctions) : PTR[sym] = "null"
    /\ \A sym \in Elements(StackOverflowFunctions) : PTR[sym] = "real"

(* ------------------ properties of the module lookups ------------------ *)

\* C35: the startup initializer init(), with everything it calls (the
\* version check, the preload functions and the tier selection), never calls
\* LoadLibrary: during initialization modules are only looked up among the
\* modules already mapped.
C35_InitNeverLoads == loadlib = {}

\* C36: when a hard-fallback or panic-on-missing binding is resolved, a
\* binding declared with load: true loads its module into the process if it
\* is not yet mapped, and a binding declared with load: false requires the
\* module to be mapped already and never loads it.
C36_LoadFlagRespected ==
    \A sym \in CalledSymbols :
        PTR[sym] # "load" =>
            /\ (LoadFlag(sym) /\ ModuleOf(sym) \in host.installed)
                  => ModuleOf(sym) \in mapped
            /\ ~LoadFlag(sym) => ModuleOf(sym) \notin loadlib

(* --------------- properties of the availability queries --------------- *)

\* the host has the module of the symbol and the module exports the symbol
Resolvable(sym) == ModuleOf(sym) \in host.installed /\ sym \in host.exports

\* C37: the availability queries of lazily resolved bindings are idempotent:
\* on one host image, repeated or concurrent calls of option() on a
\* panic-on-missing binding, and of available() on a hard-fallback binding,
\* all return the same answer, and the answer is positive exactly when the
\* symbol can be resolved.
C37_QueriesIdempotent ==
    \A sym \in CalledSymbols : answers[sym] \subseteq {Resolvable(sym)}

(* ----------------- properties of the degraded RwLock ------------------ *)

\* C38: under the Intermediate and Legacy tiers read() by a thread that
\* already holds the RwLock, in read or in write mode, never returns normally
\* (it panics), try_read() by such a thread returns false, and no thread is
\* ever granted a second read hold.
C38_NoSecondReadHold ==
    Degraded =>
        \A t \in Threads :
            /\ op[t] = "read" /\ recursive[t] => pc[t] # "idle"
            /\ op[t] = "try_read" /\ recursive[t] /\ pc[t] = "idle" => ret[t] = "false"
            /\ rholds[t] <= 1

(* ---------------- properties of the Condvar's event ------------------- *)

\* t is inside an operation of the Condvar
UsesCondvar(t) ==
    /\ op[t] \in CondvarOps \cup {"notify_one", "notify_all"}
    /\ pc[t] \notin {"idle", "panicked"}

\* the event is closed exactly when a record built on a degraded tier was dropped
ClosedIffDropped ==
    "CloseHandle(event)" \in oscalls
        <=> (Degraded /\ cvinner # "null" /\ "Condvar" \in dropped)

\* the step that closes the event is the drop of the Condvar
ClosedByDrop ==
    ("CloseHandle(event)" \in oscalls' /\ "CloseHandle(event)" \notin oscalls)
        => ("Condvar" \in dropped' /\ "Condvar" \notin dropped)

\* a dropped Condvar stays dropped and makes no OS call on an event
DroppedIsFinal ==
    "Condvar" \in dropped
        => /\ "Condvar" \in dropped'
           /\ cvinner' = cvinner
           /\ oscalls' \cap CondvarObjectCalls = oscalls \cap CondvarObjectCalls

\* C39: every manual-reset event created for a Condvar under the
\* Intermediate or Legacy tier is closed when the Condvar's record is
\* dropped, not before and not while a thread is inside an operation of the
\* Condvar, and once: after the drop no OS call creates or closes an event;
\* under the Modern tier the Condvar makes no OS call that creates or closes
\* an object, dropped or not.
C39_EventClosedAtDrop ==
    /\ []ClosedIffDropped
    /\ []("CloseHandle(event)" \in oscalls => \A t \in Threads : ~UsesCondvar(t))
    /\ [](~Degraded => oscalls \cap CondvarObjectCalls = {})
    /\ [][ClosedByDrop /\ DroppedIsFinal]_vars

\* on a degraded tier a thread has waited on the Condvar and returned, and
\* the Condvar was dropped afterwards: its event is closed
C39_Witness ==
    /\ Degraded
    /\ "CreateEventA" \in oscalls
    /\ "CloseHandle(event)" \in oscalls
    /\ \E t \in Threads : op[t] \in CondvarOps /\ pc[t] = "idle"

====
